---- MODULE Spec2Model ----
(***************************************************************************)
(* A model of the streaming transcription session of diy_typeless          *)
(* (core/src/streaming_asr.rs, core/src/qwen_asr_ffi.rs).                  *)
(*                                                                         *)
(* One session is modelled: the caller that holds the StreamingHandle, the *)
(* audio thread (capture_audio_live), the device callback that cpal runs   *)
(* while the stream exists (build_live_stream), and the inference thread   *)
(* (run_live_inference, then the free of the live buffer).  They share the *)
(* QwenLiveAudio buffer, its pthread mutex, the stop flag and the          *)
(* accumulated text.                                                       *)
(***************************************************************************)
EXTENDS Integers, Sequences, FiniteSets, TLC

(***************************************************************************)
(* Bounds of the model.  The sizes of the source (a capacity of 480000     *)
(* samples, a first wait for 8000 samples, a 16 kHz target rate) are       *)
(* scaled down so that growth, the first wait and resampling all happen    *)
(* within a few frames.                                                    *)
(***************************************************************************)
\* frames the device delivers during the session
MaxFrames == 4
\* frames in one callback invocation
MaxBlock == 2
\* tokens the engine emits during the live call
MaxTokens == 2
\* INITIAL_CAPACITY (16000 * 30 in the source), scaled
InitialCapacity == 1
\* min_samples (16000 / 2 in the source), scaled
MinSamples == 2
\* TARGET_SAMPLE_RATE (16000 in the source), scaled
TargetRate == 2

\* the input rates the device may negotiate: below, at and above the target
InputRates == {1, TargetRate, TargetRate + 1}

\* the tokens the engine emits, in this order (strings are sequences of chars)
TokenScript == << <<"a">>, <<"b">>, <<"c">>, <<"d">> >>

VARIABLES
    \* StreamingHandle / start_streaming_transcription
    stop_flag,          \* Arc<AtomicBool>
    accumulated_text,   \* Arc<Mutex<String>>
    audio_error,        \* Arc<Mutex<Option<CoreError>>>
    on_text_log,        \* the tokens the caller's on_text was invoked with
    registry,           \* CALLBACK_REGISTRY: ctx key -> stored callback
    \* the caller inside StreamingHandle::stop
    caller_pc,
    stop_result,
    \* QwenLiveAudio and its synchronisation
    live,               \* [samples, n_samples, capacity, eof]
    mutex,              \* "unlocked" or the thread that holds the mutex
    freed,              \* free_live_audio + Box::from_raw have run: the
                        \* samples, the mutex and the condition variable are
                        \* destroyed
    uaf,                \* the threads that touched the buffer after the free
    \* audio thread
    audio_pc,
    audio_result,
    stream,             \* "none", "playing", "dropped"
    rate,               \* the negotiated input sample rate
    eof_signaled,
    \* device callback
    cb_pc,
    cb_block,           \* the frames of this invocation not yet handled
    resample_accumulator,
    cb_appended,        \* samples appended by this invocation
    cb_signaled,        \* this invocation has signaled the condition variable
    frames,             \* frames delivered so far
    pushed,             \* the samples the resampler selected for appending
    grow_failed,        \* a realloc has returned null
    \* inference thread
    inf_pc,
    inf_n,
    inf_eof,
    inf_result,
    emitted,            \* the tokens the engine has emitted
    \* threads that share one QwenTranscriber (qwen_asr_ffi.rs)
    ctx_lock,           \* self.ctx: "free" or the thread that holds the guard
    engine_callback,    \* the token callback set in the engine: "null" or
                        \* "trampoline"
    native_calls,       \* the native calls in progress: <<thread, function>>
    released,           \* per callback id, how often its box was dropped
    inserted,           \* the callback ids that were put into the registry
    tc_pc,
    tc_op,              \* the operation each thread is in
    tc_cb,              \* the id of the callback a set_token_callback passes
    tc_done,            \* operations completed per thread
    \* with_retry (retry.rs)
    max_attempts,
    script,             \* what the operation returns, call by call
    retry_pc,
    attempt,
    calls,              \* invocations of the operation
    sleeps,             \* the sleeps taken, in seconds
    retry_result,
    \* is_retryable_status (retry.rs)
    status,             \* the StatusCode passed
    status_pc,
    status_retryable,   \* what the function returned
    \* transcribe_wav_bytes (transcribe.rs) next to polish_text's with_retry
    responses,          \* what the HTTP request yields, attempt by attempt
    groq_pc,
    groq_attempt,
    groq_calls,         \* requests sent
    groq_sleeps,
    groq_result,
    \* the session registry of lib.rs and the threads that call its functions
    next_session_id,    \* NEXT_SESSION_ID
    active_sessions,    \* ACTIVE_STREAMING_SESSIONS: Vec<(u64, Arc<handle>)>
    sessions_lock,      \* its mutex: "free" or the thread that holds it
    ls_pc,
    ls_op,              \* the function each thread is in
    ls_arg,             \* its session_id argument, or the id a start drew
    ls_handle,          \* the handle a stop took out of the registry
    ls_ret,             \* what the thread's last call returned
    starts_begun,       \* start_streaming_session calls made so far
    start_returned,     \* the ids starts returned, in the order of return
    returned_at_begin,  \* per thread: the ids that had been returned when
                        \* its start began
    stopped,            \* the ids a stop has taken out of the registry
    \* the recorder of audio.rs, its callers and the stream's callback
    rec_state,          \* RECORDING_STATE but for the contents of samples
    rec_samples,        \* the Vec<f32> behind state.samples
    rec_lock,           \* the mutex of RECORDING_STATE: "free" or its holder
    rec_samples_lock,   \* the mutex of the sample buffer
    rec_pc,
    rec_op,             \* the function each caller is in
    rec_ret,            \* what the caller's last call returned
    rcb_pc,             \* the audio callback of the running stream
    rcb_data,           \* the block the callback was invoked with
    \* resample_linear (audio.rs) as a function
    rs_input,           \* input: &[f32]
    rs_src,             \* src_rate
    rs_dst,             \* dst_rate
    rs_pc,
    rs_output,          \* the Vec<f32> returned
    \* the mutexes of one streaming session and who holds them
    lk_owner,           \* each mutex: "free" or the participant holding it
    lk_pc,              \* where each participant of the session is
    lk_edges,           \* <<held, acquired>>: every nested acquisition so far
    lk_stop,            \* the session's stop flag
    lk_live,            \* the live buffer: enough samples, eof, freed
    lk_registered,      \* the handle is in ACTIVE_STREAMING_SESSIONS
    lk_seen,            \* what the inference thread last read of the buffer
    \* the local ASR engine of transcribe.rs and its callers
    local_transcriber,  \* LOCAL_TRANSCRIBER: None or the transcriber stored
    asr_pc,
    asr_dir,            \* model_dir of each caller's init_local_asr
    asr_new,            \* the transcriber each caller has loaded
    asr_ret,            \* what each caller's last call returned
    asr_calls,          \* init_local_asr calls begun so far
    asr_oks,            \* init_local_asr calls that returned Ok so far
    asr_after_ok        \* whether an init had returned Ok when the call began

vars == << stop_flag, accumulated_text, audio_error, on_text_log, registry,
           caller_pc, stop_result, live, mutex, freed, uaf,
           audio_pc, audio_result, stream, rate, eof_signaled,
           cb_pc, cb_block, resample_accumulator, cb_appended, cb_signaled,
           frames, pushed, grow_failed,
           inf_pc, inf_n, inf_eof, inf_result, emitted,
           ctx_lock, engine_callback, native_calls, released, inserted,
           tc_pc, tc_op, tc_cb, tc_done,
           max_attempts, script, retry_pc, attempt, calls, sleeps,
           retry_result,
           status, status_pc, status_retryable,
           responses, groq_pc, groq_attempt, groq_calls, groq_sleeps,
           groq_result,
           next_session_id, active_sessions, sessions_lock, ls_pc, ls_op,
           ls_arg, ls_handle, ls_ret, starts_begun, start_returned,
           returned_at_begin, stopped,
           rec_state, rec_samples, rec_lock, rec_samples_lock, rec_pc, rec_op,
           rec_ret, rcb_pc, rcb_data,
           rs_input, rs_src, rs_dst, rs_pc, rs_output,
           lk_owner, lk_pc, lk_edges, lk_stop, lk_live, lk_registered, lk_seen,
           local_transcriber, asr_pc, asr_dir, asr_new, asr_ret, asr_calls,
           asr_oks, asr_after_ok >>

sessionVars == << stop_flag, accumulated_text, audio_error, on_text_log, registry >>
callerVars == << caller_pc, stop_result >>
bufferVars == << live, mutex, freed, uaf >>
audioVars == << audio_pc, audio_result, stream, rate, eof_signaled >>
cbVars == << cb_pc, cb_block, resample_accumulator, cb_appended, cb_signaled,
             frames, pushed, grow_failed >>
infVars == << inf_pc, inf_n, inf_eof, inf_result, emitted >>
transcriberVars == << ctx_lock, engine_callback, native_calls, released,
                      inserted, tc_pc, tc_op, tc_cb, tc_done >>
retryVars == << max_attempts, script, retry_pc, attempt, calls, sleeps,
                retry_result >>

statusVars == << status, status_pc, status_retryable >>
groqVars == << responses, groq_pc, groq_attempt, groq_calls, groq_sleeps,
              groq_result >>
libVars == << next_session_id, active_sessions, sessions_lock, ls_pc, ls_op,
             ls_arg, ls_handle, ls_ret, starts_begun, start_returned,
             returned_at_begin, stopped >>
recVars == << rec_state, rec_samples, rec_lock, rec_samples_lock, rec_pc,
             rec_op, rec_ret, rcb_pc, rcb_data >>
resampleVars == << rs_input, rs_src, rs_dst, rs_pc, rs_output >>
lockVars == << lk_owner, lk_pc, lk_edges, lk_stop, lk_live, lk_registered,
              lk_seen >>
asrVars == << local_transcriber, asr_pc, asr_dir, asr_new, asr_ret, asr_calls,
             asr_oks, asr_after_ok >>

\* the state a step of the streaming session leaves alone
outsideSession == << transcriberVars, retryVars, statusVars, groqVars, libVars,
                     recVars,
        resampleVars, lockVars, asrVars >>
\* the state of the streaming session but for the callback registry
sessionOnly == << stop_flag, accumulated_text, audio_error, on_text_log,
                 callerVars, bufferVars, audioVars, cbVars, infVars >>
\* the state a step of a thread sharing the transcriber leaves alone, but for
\* the callback registry
outsideTranscriber == << sessionOnly, retryVars, statusVars, groqVars, libVars,
                         recVars,
        resampleVars, lockVars, asrVars >>
\* the state a step of with_retry leaves alone
outsideRetry == << registry, sessionOnly, transcriberVars, statusVars, groqVars,
                   libVars, recVars,
        resampleVars, lockVars, asrVars >>
\* the state is_retryable_status leaves alone
outsideStatus == << registry, sessionOnly, transcriberVars, retryVars, groqVars,
                    libVars, recVars,
        resampleVars, lockVars, asrVars >>
\* the state transcribe_wav_bytes leaves alone
outsideGroq == << registry, sessionOnly, transcriberVars, retryVars, statusVars,
                  libVars, recVars,
        resampleVars, lockVars, asrVars >>
\* the state the functions of the session registry leave alone
outsideLib == << registry, sessionOnly, transcriberVars, retryVars, statusVars,
                 groqVars, recVars, resampleVars, lockVars, asrVars >>
\* the state the recorder leaves alone
outsideRecorder == << registry, sessionOnly, transcriberVars, retryVars,
                      statusVars, groqVars, libVars, resampleVars, lockVars, asrVars >>
\* the state resample_linear leaves alone
outsideResample == << registry, sessionOnly, transcriberVars, retryVars,
                      statusVars, groqVars, libVars, recVars, lockVars, asrVars >>
\* the state a step of the lock-order model leaves alone
outsideLocks == << registry, sessionOnly, transcriberVars, retryVars,
                  statusVars, groqVars, libVars, recVars, resampleVars, asrVars >>
\* the state init_local_asr and is_local_asr_available leave alone
outsideAsr == << registry, sessionOnly, transcriberVars, retryVars, statusVars,
                groqVars, libVars, recVars, resampleVars, lockVars >>

----------------------------------------------------------------------------
(* Values *)

None == [kind |-> "None"]
Ok(v) == [kind |-> "Ok", value |-> v]
Err(e) == [kind |-> "Err", error |-> e]

\* what JoinHandle::join yields for a thread that panicked: Err(payload)
Panicked == [kind |-> "Panicked"]

\* a join that hands the thread's outcome on as it is, the payload of a panic
\* included (mutant of JoinOutcome)
JoinUnwrap(result, msg) == result

\* the match on thread.join() in stop(): Ok(r) is the thread's own result r,
\* Err(_) (the thread panicked) becomes the Transcription error msg
JoinOutcome(result, msg) ==
    IF result.kind = "Panicked" THEN Err(msg) ELSE result

\* the engine context the session's transcriber wraps (the registry key)
Ctx == "ctx"

\* String::push_str
PushStr(text, token) == text \o token

RECURSIVE ConcatAll(_)
ConcatAll(tokens) ==
    IF tokens = <<>> THEN <<>> ELSE Head(tokens) \o ConcatAll(Tail(tokens))

\* StreamingHandle::current_text
CurrentText == accumulated_text

\* StreamingHandle::is_running
IsRunning == ~stop_flag

----------------------------------------------------------------------------
(* The token callback: the closure, the registry and the trampoline *)

\* The closure start_streaming_transcription registers: append under the
\* text lock, drop the lock, then call on_text.  Returns the new
\* accumulated text and the new log of on_text calls.
TokenCallback(text, log, token) ==
    [text |-> PushStr(text, token), log |-> Append(log, token)]

\* set_token_callback boxes the closure as Box<dyn Any + Send>: the value
\* inside the box has the closure's own type F.
StoredCallback == [type |-> "F"]

\* the type token_callback_trampoline_registry asks downcast_mut for
TrampolineType == "Box<dyn FnMut(String) + Send>"

\* <dyn Any>::downcast_mut::<T>: Some only when the stored value is a T
DowncastMut(entry, T) == IF entry.type = T THEN entry ELSE None

\* token_callback_trampoline_registry: look the callback up by ctx key,
\* downcast it, and call it when the downcast succeeds.
Trampoline(text, log, token) ==
    IF Ctx \in DOMAIN registry
       /\ DowncastMut(registry[Ctx], TrampolineType) # None
    THEN TokenCallback(text, log, token)
    ELSE [text |-> text, log |-> log]

\* a removal that leaves the entry in place (mutant of RegistryRemove)
RegistryRemoveKeeps(reg, key) == reg

\* clear_token_callback: registry.remove(&ctx_key), which drops the stored box
RegistryRemove(reg, key) == [k \in DOMAIN reg \ {key} |-> reg[k]]

----------------------------------------------------------------------------
(* The live buffer *)

\* create_live_audio: malloc'ed sample array (0 stands for unwritten memory)
CreateLiveAudio ==
    [samples |-> [i \in 1..InitialCapacity |-> 0],
     n_samples |-> 0,
     capacity |-> InitialCapacity,
     eof |-> 0]

\* a growth test that lets one sample past the end (mutant of GrowthNeeded)
GrowthNeededPastEnd(n, cap) == n > cap

\* the growth test of the callback: if live.n_samples >= live.capacity
GrowthNeeded(n, cap) == n >= cap

\* the capacity the callback asks realloc for
NewCapacity(cap) == cap * 2

\* libc::realloc that succeeded: the old content is kept
Realloc(s, newcap) ==
    [i \in 1..newcap |-> IF i \in DOMAIN s THEN s[i] ELSE 0]

\* a failed growth that records the new capacity all the same (mutant of
\* ReallocFailed)
ReallocFailedGrowsCapacity(b) == [b EXCEPT !.capacity = NewCapacity(b.capacity)]

\* libc::realloc that returned null: the old block is left as it is, and the
\* callback returns before it assigns samples or capacity
ReallocFailed(b) == b

\* *live.samples.offset(n_samples) = sample; n_samples += 1
\* (offset n is index n + 1 of the model's array)
AppendSample(b, v) ==
    [b EXCEPT !.samples = IF (b.n_samples + 1) \in DOMAIN b.samples
                          THEN [b.samples EXCEPT ![b.n_samples + 1] = v]
                          ELSE b.samples,
              !.n_samples = b.n_samples + 1]

\* what a consumer holding the lock can read: samples[0..n_samples]
Contents(b) ==
    [i \in 1..b.n_samples |-> IF i \in DOMAIN b.samples THEN b.samples[i] ELSE 0]

\* What pthread_mutex_lock on the destroyed, freed mutex can do: return (0 or
\* EINVAL, the code reads neither) or never return.  The behaviour is
\* undefined, so both are possible.
FreedLockOutcomes == {"returns", "blocks"}

Touch(thread) == IF freed THEN uaf \cup {thread} ELSE uaf

----------------------------------------------------------------------------
\* the threads that share a transcriber: none is inside an operation
Clients == {"A", "B"}

\* the transcriber's own state with no operation in progress; the ids of the
\* callbacks are 1, 2, ... in the order the set_token_callback calls begin
TranscriberIdle ==
    /\ ctx_lock = "free"
    /\ engine_callback = "null"
    /\ native_calls = {}
    /\ released = <<>>
    /\ inserted = {}
    /\ tc_pc = [t \in Clients |-> "idle"]
    /\ tc_op = [t \in Clients |-> "none"]
    /\ tc_cb = [t \in Clients |-> 0]
    /\ tc_done = [t \in Clients |-> 0]

\* no with_retry call in progress
RetryIdle ==
    /\ max_attempts = 1
    /\ script = <<>>
    /\ retry_pc = "idle"
    /\ attempt = 0
    /\ calls = 0
    /\ sleeps = <<>>
    /\ retry_result = None

\* no is_retryable_status call made
StatusIdle ==
    /\ status = 200
    /\ status_pc = "idle"
    /\ status_retryable = FALSE

\* no transcribe_wav_bytes call in progress
GroqIdle ==
    /\ responses = <<>>
    /\ groq_pc = "idle"
    /\ groq_attempt = 0
    /\ groq_calls = 0
    /\ groq_sleeps = <<>>
    /\ groq_result = None

\* the threads that call the session functions of lib.rs
LibCallers == {"A", "B"}

\* the session registry as the statics initialise it, no call in progress
LibIdle ==
    /\ next_session_id = 1
    /\ active_sessions = <<>>
    /\ sessions_lock = "free"
    /\ ls_pc = [t \in LibCallers |-> "idle"]
    /\ ls_op = [t \in LibCallers |-> "none"]
    /\ ls_arg = [t \in LibCallers |-> 0]
    /\ ls_handle = [t \in LibCallers |-> None]
    /\ ls_ret = [t \in LibCallers |-> None]
    /\ starts_begun = 0
    /\ start_returned = <<>>
    /\ returned_at_begin = [t \in LibCallers |-> {}]
    /\ stopped = {}

\* the threads that call start_recording, stop_recording, stop_recording_wav
RecCallers == {"A", "B"}

\* the rate the recorder's output has
WhisperSampleRate == 16000

\* RecordingState::new(), nobody calling
RecIdle ==
    /\ rec_state = [is_recording |-> FALSE, stream |-> "None",
                    sample_rate |-> WhisperSampleRate, channels |-> 1]
    /\ rec_samples = <<>>
    /\ rec_lock = "free"
    /\ rec_samples_lock = "free"
    /\ rec_pc = [t \in RecCallers |-> "idle"]
    /\ rec_op = [t \in RecCallers |-> "none"]
    /\ rec_ret = [t \in RecCallers |-> None]
    /\ rcb_pc = "idle"
    /\ rcb_data = <<>>

\* resample_linear not called
ResampleIdle ==
    /\ rs_input = <<>>
    /\ rs_src = 1
    /\ rs_dst = 1
    /\ rs_pc = "idle"
    /\ rs_output = <<>>

\* the threads that call init_local_asr and is_local_asr_available
AsrCallers == {"A", "B"}

\* LOCAL_TRANSCRIBER is OnceLock::new() and nobody is in a call
AsrIdle ==
    /\ local_transcriber = None
    /\ asr_pc = [t \in AsrCallers |-> "idle"]
    /\ asr_dir = [t \in AsrCallers |-> "none"]
    /\ asr_new = [t \in AsrCallers |-> None]
    /\ asr_ret = [t \in AsrCallers |-> None]
    /\ asr_calls = 0
    /\ asr_oks = 0
    /\ asr_after_ok = [t \in AsrCallers |-> FALSE]

\* the five mutexes a streaming session's participants take
Mutexes == {"ctx", "callbacks", "text", "sessions", "buffer"}

\* the caller of start and stop, a poller of text and activity, the audio
\* thread, the device callback and the inference thread
Participants == {"caller", "poller", "audio", "callback", "inference"}

\* no session of the lock-order model started
LockIdle ==
    /\ lk_owner = [m \in Mutexes |-> "free"]
    /\ lk_pc = [p \in Participants |-> "idle"]
    /\ lk_edges = {}
    /\ lk_stop = FALSE
    /\ lk_live = [enough |-> FALSE, eof |-> FALSE, freed |-> FALSE]
    /\ lk_registered = FALSE
    /\ lk_seen = [enough |-> FALSE, eof |-> FALSE]

\* the parts of the program outside the streaming session, the shared
\* transcriber and with_retry: at rest
OthersIdle ==
    /\ AsrIdle /\ LockIdle /\ StatusIdle /\ GroqIdle /\ LibIdle /\ RecIdle
    /\ ResampleIdle

\* the session's state but for the registry, as start_streaming_transcription
\* leaves it
InitSession ==
    /\ stop_flag = FALSE
    /\ accumulated_text = <<>>
    /\ audio_error = None
    /\ on_text_log = <<>>
    /\ caller_pc = "running"
    /\ stop_result = None
    /\ live = CreateLiveAudio
    /\ mutex = "unlocked"
    /\ freed = FALSE
    /\ uaf = {}
    /\ audio_pc = "open"
    /\ audio_result = None
    /\ stream = "none"
    /\ rate = 0
    /\ eof_signaled = FALSE
    /\ cb_pc = "idle"
    /\ cb_block = <<>>
    /\ resample_accumulator = 0
    /\ cb_appended = 0
    /\ cb_signaled = FALSE
    /\ frames = 0
    /\ pushed = <<>>
    /\ grow_failed = FALSE
    /\ inf_pc = "waitLock"
    /\ inf_n = 0
    /\ inf_eof = 0
    /\ inf_result = None
    /\ emitted = <<>>

Init ==
    /\ registry = [c \in {Ctx} |-> StoredCallback]
    /\ InitSession
    /\ TranscriberIdle
    /\ RetryIdle
    /\ OthersIdle

----------------------------------------------------------------------------
(* The audio thread: capture_audio_live inside the spawned closure *)

\* the failures capture_audio_live returns before its wait loop
CaptureErrors == {"No input device available", "Failed to start stream"}

\* capture_audio_live fails (no device, no config, build or play failed): the
\* closure stores the error in audio_error and returns its own error.
AudioOpenFail ==
    /\ audio_pc = "open"
    /\ \E e \in CaptureErrors : audio_error' = Err(e)
    /\ audio_result' = Err("Audio capture failed")
    /\ audio_pc' = "done"
    /\ UNCHANGED << stop_flag, accumulated_text, on_text_log, registry >>
    /\ UNCHANGED << stream, rate, eof_signaled >>
    /\ UNCHANGED << callerVars, bufferVars, cbVars, infVars >>
    /\ UNCHANGED outsideSession

\* a call the audio thread makes while it opens the device panics: the thread
\* unwinds, and its JoinHandle will yield Err(payload)
AudioPanic ==
    /\ audio_pc = "open"
    /\ audio_result' = Panicked
    /\ audio_pc' = "done"
    /\ UNCHANGED << stream, rate, eof_signaled >>
    /\ UNCHANGED << sessionVars, callerVars, bufferVars, cbVars, infVars >>
    /\ UNCHANGED outsideSession

\* the device is opened, a rate negotiated, the stream built and played
AudioOpenOk ==
    /\ audio_pc = "open"
    /\ \E r \in InputRates : rate' = r
    /\ stream' = "playing"
    /\ audio_pc' = "waitStop"
    /\ UNCHANGED << audio_result, eof_signaled >>
    /\ UNCHANGED << sessionVars, callerVars, bufferVars, cbVars, infVars >>
    /\ UNCHANGED outsideSession

\* while !stop_flag.load() { sleep(10ms) }: the loop ends on the stop flag
AudioWaitStop ==
    /\ audio_pc = "waitStop"
    /\ stop_flag
    /\ audio_pc' = "lockEof"
    /\ UNCHANGED << audio_result, stream, rate, eof_signaled >>
    /\ UNCHANGED << sessionVars, callerVars, bufferVars, cbVars, infVars >>
    /\ UNCHANGED outsideSession

\* pthread_mutex_lock(live.mutex).  On the freed buffer the call is undefined:
\* it returns without any mutex held, or it never returns.
AudioLockEof ==
    /\ audio_pc = "lockEof"
    /\ IF freed
       THEN /\ \E o \in FreedLockOutcomes :
                 audio_pc' = IF o = "returns" THEN "setEof" ELSE "hung"
            /\ uaf' = uaf \cup {"audio"}
            /\ UNCHANGED mutex
       ELSE /\ mutex = "unlocked"
            /\ mutex' = "audio"
            /\ audio_pc' = "setEof"
            /\ UNCHANGED uaf
    /\ UNCHANGED << live, freed >>
    /\ UNCHANGED << audio_result, stream, rate, eof_signaled >>
    /\ UNCHANGED << sessionVars, callerVars, cbVars, infVars >>
    /\ UNCHANGED outsideSession

\* live.eof = 1
AudioSetEof ==
    /\ audio_pc = "setEof"
    /\ live' = IF freed THEN live ELSE [live EXCEPT !.eof = 1]
    /\ uaf' = Touch("audio")
    /\ audio_pc' = "signalEof"
    /\ UNCHANGED << mutex, freed >>
    /\ UNCHANGED << audio_result, stream, rate, eof_signaled >>
    /\ UNCHANGED << sessionVars, callerVars, cbVars, infVars >>
    /\ UNCHANGED outsideSession

\* pthread_cond_signal(live.cond)
AudioSignalEof ==
    /\ audio_pc = "signalEof"
    /\ eof_signaled' = TRUE
    /\ uaf' = Touch("audio")
    /\ audio_pc' = "unlockEof"
    /\ UNCHANGED << live, mutex, freed >>
    /\ UNCHANGED << audio_result, stream, rate >>
    /\ UNCHANGED << sessionVars, callerVars, cbVars, infVars >>
    /\ UNCHANGED outsideSession

\* pthread_mutex_unlock(live.mutex)
AudioUnlockEof ==
    /\ audio_pc = "unlockEof"
    /\ mutex' = IF mutex = "audio" THEN "unlocked" ELSE mutex
    /\ uaf' = Touch("audio")
    /\ audio_pc' = "dropStream"
    /\ UNCHANGED << live, freed >>
    /\ UNCHANGED << audio_result, stream, rate, eof_signaled >>
    /\ UNCHANGED << sessionVars, callerVars, cbVars, infVars >>
    /\ UNCHANGED outsideSession

\* capture_audio_live returns Ok(()): the stream is dropped, which waits for a
\* callback invocation in progress; the closure returns Ok(()).
AudioDropStream ==
    /\ audio_pc = "dropStream"
    /\ cb_pc = "idle"
    /\ stream' = "dropped"
    /\ audio_result' = Ok(<<>>)
    /\ audio_pc' = "done"
    /\ UNCHANGED << rate, eof_signaled >>
    /\ UNCHANGED << sessionVars, callerVars, bufferVars, cbVars, infVars >>
    /\ UNCHANGED outsideSession

AudioStep ==
    \/ AudioOpenFail
    \/ AudioPanic
    \/ AudioOpenOk
    \/ AudioWaitStop
    \/ AudioLockEof
    \/ AudioSetEof
    \/ AudioSignalEof
    \/ AudioUnlockEof
    \/ AudioDropStream

----------------------------------------------------------------------------
(* The device callback: the input closure of build_live_stream *)

\* the frames k new frames carry: each frame is named by its position in the
\* session's input and stands for the mean of its channel values
FrameBlock(from, k) == [i \in 1..k |-> from + i]

\* cpal invokes the callback with a block of k frames.  The callback first
\* loads the stop flag and returns at once when it is set.
CbDeliver ==
    /\ stream = "playing"
    /\ cb_pc = "idle"
    /\ \E k \in 1..MaxBlock :
         /\ frames + k <= MaxFrames
         /\ frames' = frames + k
         /\ IF stop_flag
            THEN UNCHANGED << cb_pc, cb_block >>
            ELSE /\ cb_pc' = "lock"
                 /\ cb_block' = FrameBlock(frames, k)
    /\ UNCHANGED << resample_accumulator, cb_appended, cb_signaled, pushed, grow_failed >>
    /\ UNCHANGED << sessionVars, callerVars, bufferVars, audioVars, infVars >>
    /\ UNCHANGED outsideSession

\* pthread_mutex_lock(live.mutex), as in AudioLockEof
CbLock ==
    /\ cb_pc = "lock"
    /\ IF freed
       THEN /\ \E o \in FreedLockOutcomes :
                 cb_pc' = IF o = "returns" THEN "loop" ELSE "hung"
            /\ uaf' = uaf \cup {"cb"}
            /\ UNCHANGED mutex
       ELSE /\ mutex = "unlocked"
            /\ mutex' = "cb"
            /\ cb_pc' = "loop"
            /\ UNCHANGED uaf
    /\ cb_appended' = 0
    /\ cb_signaled' = FALSE
    /\ UNCHANGED << live, freed >>
    /\ UNCHANGED << cb_block, resample_accumulator, frames, pushed, grow_failed >>
    /\ UNCHANGED << sessionVars, callerVars, audioVars, infVars >>
    /\ UNCHANGED outsideSession

\* resample_accumulator += 1.0; if resample_accumulator >= resample_ratio.
\* The accumulator is kept in units of 1 / TargetRate, so that the ratio
\* rate / TargetRate is the integer rate.
ResampleAdd(acc) == acc + TargetRate
ResampleSelects(acc) == acc >= rate
ResampleSub(acc) == acc - rate

\* one iteration of `for chunk in data.chunks(channels)`
CbLoop ==
    /\ cb_pc = "loop"
    /\ cb_block # <<>>
    /\ LET v == Head(cb_block)
           acc == ResampleAdd(resample_accumulator)
           rest == Tail(cb_block)
           after == IF rest = <<>> THEN "signal" ELSE "loop"
       IN  IF freed
           THEN \* every access of this iteration is to freed memory
                /\ uaf' = uaf \cup {"cb"}
                /\ cb_block' = rest
                /\ cb_pc' = after
                /\ UNCHANGED << live, resample_accumulator, cb_appended, pushed, grow_failed >>
           ELSE IF ~ResampleSelects(acc)
           THEN /\ resample_accumulator' = acc
                /\ cb_block' = rest
                /\ cb_pc' = after
                /\ UNCHANGED << live, uaf, cb_appended, pushed, grow_failed >>
           ELSE /\ pushed' = Append(pushed, v)
                /\ UNCHANGED uaf
                /\ IF GrowthNeeded(live.n_samples, live.capacity)
                   THEN \E ok \in BOOLEAN :
                          IF ok
                          THEN /\ live' = AppendSample(
                                    [live EXCEPT
                                       !.samples = Realloc(live.samples, NewCapacity(live.capacity)),
                                       !.capacity = NewCapacity(live.capacity)], v)
                               /\ cb_appended' = cb_appended + 1
                               /\ resample_accumulator' = ResampleSub(acc)
                               /\ cb_block' = rest
                               /\ cb_pc' = after
                               /\ UNCHANGED grow_failed
                          ELSE \* realloc returned null: unlock and return
                               /\ grow_failed' = TRUE
                               /\ resample_accumulator' = acc
                               /\ cb_block' = <<>>
                               /\ cb_pc' = "unlock"
                               /\ live' = ReallocFailed(live)
                               /\ UNCHANGED cb_appended
                   ELSE /\ live' = AppendSample(live, v)
                        /\ cb_appended' = cb_appended + 1
                        /\ resample_accumulator' = ResampleSub(acc)
                        /\ cb_block' = rest
                        /\ cb_pc' = after
                        /\ UNCHANGED grow_failed
    /\ UNCHANGED << mutex, freed, cb_signaled, frames >>
    /\ UNCHANGED << sessionVars, callerVars, audioVars, infVars >>
    /\ UNCHANGED outsideSession

\* pthread_cond_signal(live.cond) after the loop
CbSignal ==
    /\ cb_pc = "signal"
    /\ cb_signaled' = TRUE
    /\ uaf' = Touch("cb")
    /\ cb_pc' = "unlock"
    /\ UNCHANGED << live, mutex, freed >>
    /\ UNCHANGED << cb_block, resample_accumulator, cb_appended, frames, pushed, grow_failed >>
    /\ UNCHANGED << sessionVars, callerVars, audioVars, infVars >>
    /\ UNCHANGED outsideSession

\* pthread_mutex_unlock(live.mutex), after the signal or on the realloc failure
CbUnlock ==
    /\ cb_pc = "unlock"
    /\ mutex' = IF mutex = "cb" THEN "unlocked" ELSE mutex
    /\ uaf' = Touch("cb")
    /\ cb_pc' = "idle"
    /\ UNCHANGED << live, freed >>
    /\ UNCHANGED << cb_block, resample_accumulator, cb_appended, cb_signaled,
                    frames, pushed, grow_failed >>
    /\ UNCHANGED << sessionVars, callerVars, audioVars, infVars >>
    /\ UNCHANGED outsideSession

CbStep ==
    \/ CbLock
    \/ CbLoop
    \/ CbSignal
    \/ CbUnlock

----------------------------------------------------------------------------
(* The inference thread: run_live_inference, then the free of the buffer *)

\* pthread_mutex_lock(live.mutex) in the first wait
InfWaitLock ==
    /\ inf_pc = "waitLock"
    /\ mutex = "unlocked"
    /\ mutex' = "inf"
    /\ inf_pc' = "waitRead"
    /\ UNCHANGED << live, freed, uaf >>
    /\ UNCHANGED << inf_n, inf_eof, inf_result, emitted >>
    /\ UNCHANGED << sessionVars, callerVars, audioVars, cbVars >>
    /\ UNCHANGED outsideSession

\* let n_samples = live.n_samples; let eof = live.eof; pthread_mutex_unlock
InfWaitRead ==
    /\ inf_pc = "waitRead"
    /\ inf_n' = live.n_samples
    /\ inf_eof' = live.eof
    /\ mutex' = "unlocked"
    /\ inf_pc' = "waitCheck"
    /\ UNCHANGED << live, freed, uaf >>
    /\ UNCHANGED << inf_result, emitted >>
    /\ UNCHANGED << sessionVars, callerVars, audioVars, cbVars >>
    /\ UNCHANGED outsideSession

\* a first wait that needs one sample more (mutant of EnoughSamples)
EnoughSamplesStrict(n) == n > MinSamples

\* n_samples >= min_samples
EnoughSamples(n) == n >= MinSamples

\* the tests after the unlock: break, return Ok(String::new()), or sleep and
\* go round again
InfWaitCheck ==
    /\ inf_pc = "waitCheck"
    /\ IF EnoughSamples(inf_n)
       THEN /\ inf_pc' = "setLanguage"
            /\ UNCHANGED inf_result
       ELSE IF stop_flag \/ inf_eof # 0
       THEN /\ inf_result' = Ok(<<>>)
            /\ inf_pc' = "dropTranscriber"
       ELSE /\ inf_pc' = "waitLock"
            /\ UNCHANGED inf_result
    /\ UNCHANGED << inf_n, inf_eof, emitted >>
    /\ UNCHANGED << sessionVars, callerVars, bufferVars, audioVars, cbVars >>
    /\ UNCHANGED outsideSession

\* transcribe_stream_live: self.set_language(language)? either succeeds or
\* returns the Config error at once
InfSetLanguage ==
    /\ inf_pc = "setLanguage"
    /\ \E ok \in BOOLEAN :
         IF ok
         THEN /\ inf_pc' = "engineLock"
              /\ UNCHANGED inf_result
         ELSE /\ inf_result' = Err("Failed to set language")
              /\ inf_pc' = "dropTranscriber"
    /\ UNCHANGED << inf_n, inf_eof, emitted >>
    /\ UNCHANGED << sessionVars, callerVars, bufferVars, audioVars, cbVars >>
    /\ UNCHANGED outsideSession

\* qwen_transcribe_stream_live polls the buffer under its mutex
EngineLock ==
    /\ inf_pc = "engineLock"
    /\ mutex = "unlocked"
    /\ mutex' = "inf"
    /\ inf_pc' = "engineRead"
    /\ UNCHANGED << live, freed, uaf >>
    /\ UNCHANGED << inf_n, inf_eof, inf_result, emitted >>
    /\ UNCHANGED << sessionVars, callerVars, audioVars, cbVars >>
    /\ UNCHANGED outsideSession

EngineRead ==
    /\ inf_pc = "engineRead"
    /\ inf_n' = live.n_samples
    /\ inf_eof' = live.eof
    /\ mutex' = "unlocked"
    /\ inf_pc' = "engineStep"
    /\ UNCHANGED << live, freed, uaf >>
    /\ UNCHANGED << inf_result, emitted >>
    /\ UNCHANGED << sessionVars, callerVars, audioVars, cbVars >>
    /\ UNCHANGED outsideSession

\* the engine emits its next token: it calls the registered C callback, the
\* trampoline, on the inference thread
EngineEmit ==
    /\ inf_pc = "engineStep"
    /\ Len(emitted) < MaxTokens
    /\ Len(emitted) < Len(TokenScript)
    /\ LET token == TokenScript[Len(emitted) + 1]
           r == Trampoline(accumulated_text, on_text_log, token)
       IN  /\ emitted' = Append(emitted, token)
           /\ accumulated_text' = r.text
           /\ on_text_log' = r.log
    /\ UNCHANGED << stop_flag, audio_error, registry >>
    /\ UNCHANGED << inf_pc, inf_n, inf_eof, inf_result >>
    /\ UNCHANGED << callerVars, bufferVars, audioVars, cbVars >>
    /\ UNCHANGED outsideSession

\* no end of stream seen yet: the engine polls again
EnginePollAgain ==
    /\ inf_pc = "engineStep"
    /\ inf_eof = 0
    /\ inf_pc' = "engineLock"
    /\ UNCHANGED << inf_n, inf_eof, inf_result, emitted >>
    /\ UNCHANGED << sessionVars, callerVars, bufferVars, audioVars, cbVars >>
    /\ UNCHANGED outsideSession

\* the text the engine returns: the tokens it emitted, assembled
EngineFinalText == ConcatAll(emitted)

\* qwen_transcribe_stream_live returns: the final text once it has seen eof,
\* or a null pointer (a failure, at any time), which transcribe_stream_live
\* maps to an error
EngineReturn ==
    /\ inf_pc = "engineStep"
    /\ \E null \in BOOLEAN :
         /\ null \/ inf_eof # 0
         /\ inf_result' = IF null
                          THEN Err("Live streaming transcription failed")
                          ELSE Ok(EngineFinalText)
    /\ inf_pc' = "dropTranscriber"
    /\ UNCHANGED << inf_n, inf_eof, emitted >>
    /\ UNCHANGED << sessionVars, callerVars, bufferVars, audioVars, cbVars >>
    /\ UNCHANGED outsideSession

\* a call transcribe_stream_live makes panics (lock().unwrap(), the engine
\* wrapper): the thread unwinds, which drops the transcriber as in
\* InfDropTranscriber and skips the free of the buffer
InfPanic ==
    /\ inf_pc = "setLanguage"
    /\ inf_result' = Panicked
    /\ registry' = RegistryRemove(registry, Ctx)
    /\ inf_pc' = "done"
    /\ UNCHANGED << stop_flag, accumulated_text, audio_error, on_text_log >>
    /\ UNCHANGED << inf_n, inf_eof, emitted >>
    /\ UNCHANGED << callerVars, bufferVars, audioVars, cbVars >>
    /\ UNCHANGED outsideSession

\* run_live_inference returns: its parameter `transcriber`, the only Arc of
\* the session's QwenTranscriber, goes out of scope, and Drop for
\* QwenTranscriber runs clear_token_callback (then qwen_free)
InfDropTranscriber ==
    /\ inf_pc = "dropTranscriber"
    /\ registry' = RegistryRemove(registry, Ctx)
    /\ inf_pc' = "free"
    /\ UNCHANGED << stop_flag, accumulated_text, audio_error, on_text_log >>
    /\ UNCHANGED << inf_n, inf_eof, inf_result, emitted >>
    /\ UNCHANGED << callerVars, bufferVars, audioVars, cbVars >>
    /\ UNCHANGED outsideSession

\* the closure of the inference thread after run_live_inference returned:
\* free_live_audio (samples, mutex and condition variable destroyed and
\* freed) and Box::from_raw, whatever the other threads are doing
InfFree ==
    /\ inf_pc = "free"
    /\ freed' = TRUE
    /\ inf_pc' = "done"
    /\ UNCHANGED << live, mutex, uaf >>
    /\ UNCHANGED << inf_n, inf_eof, inf_result, emitted >>
    /\ UNCHANGED << sessionVars, callerVars, audioVars, cbVars >>
    /\ UNCHANGED outsideSession

InfStep ==
    \/ InfWaitLock
    \/ InfWaitRead
    \/ InfWaitCheck
    \/ InfSetLanguage
    \/ EngineLock
    \/ EngineRead
    \/ EngineEmit
    \/ EnginePollAgain
    \/ EngineReturn
    \/ InfPanic
    \/ InfDropTranscriber
    \/ InfFree

----------------------------------------------------------------------------
(* The caller: StreamingHandle::stop *)

\* self.stop_flag.store(true)
Stop ==
    /\ caller_pc = "running"
    /\ stop_flag' = TRUE
    /\ caller_pc' = "joinAudio"
    /\ UNCHANGED << accumulated_text, audio_error, on_text_log, registry >>
    /\ UNCHANGED stop_result
    /\ UNCHANGED << bufferVars, audioVars, cbVars, infVars >>
    /\ UNCHANGED outsideSession

\* audio_thread.take().join(): Ok(Ok(())) goes on, Ok(Err(e)) returns Err(e),
\* Err(_) returns the error "Audio thread panicked"
JoinAudio ==
    /\ caller_pc = "joinAudio"
    /\ audio_pc = "done"
    /\ LET r == JoinOutcome(audio_result, "Audio thread panicked")
       IN  IF r.kind = "Ok"
           THEN /\ caller_pc' = "joinInference"
                /\ UNCHANGED stop_result
           ELSE /\ stop_result' = r
                /\ caller_pc' = "returned"
    /\ UNCHANGED << sessionVars, bufferVars, audioVars, cbVars, infVars >>
    /\ UNCHANGED outsideSession

\* inference_thread.take().join(): Ok(result) => result, Err(_) => the error
\* "Inference thread panicked"
JoinInference ==
    /\ caller_pc = "joinInference"
    /\ inf_pc = "done"
    /\ stop_result' = JoinOutcome(inf_result, "Inference thread panicked")
    /\ caller_pc' = "returned"
    /\ UNCHANGED << sessionVars, bufferVars, audioVars, cbVars, infVars >>
    /\ UNCHANGED outsideSession

CallerStep ==
    \/ Stop
    \/ JoinAudio
    \/ JoinInference

----------------------------------------------------------------------------
Next ==
    \/ AudioStep
    \/ CbDeliver
    \/ CbStep
    \/ InfStep
    \/ CallerStep

Spec == Init /\ [][Next]_vars

----------------------------------------------------------------------------
(* Threads sharing one QwenTranscriber: set_token_callback,                 *)
(* clear_token_callback, set_language and the transcribe calls              *)

\* operations each thread performs
MaxOps == 2

\* the operations of a QwenTranscriber a thread can call; "transcribe" stands
\* for transcribe_samples, transcribe_stream and transcribe_stream_live,
\* which have the same locking
TranscriberOps == {"set", "clear", "language", "transcribe"}

\* the callback a set_token_callback call number id boxes and stores
BoxedCallback(id) == [type |-> "F", id |-> id]

\* dropping the box stored under key, if there is one
Release(rel, reg, key) ==
    IF key \in DOMAIN reg
    THEN [rel EXCEPT ![reg[key].id] = @ + 1]
    ELSE rel

\* registry.insert(ctx_key, boxed_callback)
RegistryInsert(reg, key, boxed) ==
    [k \in DOMAIN reg \cup {key} |-> IF k = key THEN boxed ELSE reg[k]]

\* a thread calls an operation of the transcriber
TcBegin(t) ==
    /\ tc_pc[t] = "idle"
    /\ tc_done[t] < MaxOps
    /\ \E op \in TranscriberOps :
         /\ tc_op' = [tc_op EXCEPT ![t] = op]
         /\ tc_pc' = [tc_pc EXCEPT ![t] =
                        IF op \in {"set", "clear"} THEN "clearRead" ELSE "languageLock"]
         /\ IF op = "set"
            THEN /\ released' = Append(released, 0)
                 /\ tc_cb' = [tc_cb EXCEPT ![t] = Len(released) + 1]
            ELSE UNCHANGED << released, tc_cb >>
    /\ UNCHANGED << ctx_lock, engine_callback, native_calls, inserted, tc_done >>
    /\ UNCHANGED << registry, outsideTranscriber >>

\* let ctx = *self.ctx.lock().unwrap(): the guard is a temporary, the lock is
\* taken and released within the statement
TcClearRead(t) ==
    /\ tc_pc[t] = "clearRead"
    /\ ctx_lock = "free"
    /\ tc_pc' = [tc_pc EXCEPT ![t] = "clearRemove"]
    /\ UNCHANGED << ctx_lock, engine_callback, native_calls, released, inserted,
                    tc_op, tc_cb, tc_done >>
    /\ UNCHANGED << registry, outsideTranscriber >>

\* registry.remove(&ctx_key) under the registry's lock
TcClearRemove(t) ==
    /\ tc_pc[t] = "clearRemove"
    /\ released' = Release(released, registry, Ctx)
    /\ registry' = RegistryRemove(registry, Ctx)
    /\ tc_pc' = [tc_pc EXCEPT ![t] = "clearNative"]
    /\ UNCHANGED << ctx_lock, engine_callback, native_calls, inserted,
                    tc_op, tc_cb, tc_done >>
    /\ UNCHANGED outsideTranscriber

\* qwen_set_token_callback(ctx, None, null) is entered, no lock held
TcClearNative(t) ==
    /\ tc_pc[t] = "clearNative"
    /\ native_calls' = native_calls \cup {<<t, "qwen_set_token_callback">>}
    /\ engine_callback' = "null"
    /\ tc_pc' = [tc_pc EXCEPT ![t] = "clearReturn"]
    /\ UNCHANGED << ctx_lock, released, inserted, tc_op, tc_cb, tc_done >>
    /\ UNCHANGED << registry, outsideTranscriber >>

\* the native call returns: clear_token_callback is over, set_token_callback
\* goes on
TcClearReturn(t) ==
    /\ tc_pc[t] = "clearReturn"
    /\ native_calls' = native_calls \ {<<t, "qwen_set_token_callback">>}
    /\ IF tc_op[t] = "set"
       THEN /\ tc_pc' = [tc_pc EXCEPT ![t] = "setRead"]
            /\ UNCHANGED << tc_op, tc_done >>
       ELSE /\ tc_pc' = [tc_pc EXCEPT ![t] = "idle"]
            /\ tc_op' = [tc_op EXCEPT ![t] = "none"]
            /\ tc_done' = [tc_done EXCEPT ![t] = @ + 1]
    /\ UNCHANGED << ctx_lock, engine_callback, released, inserted, tc_cb >>
    /\ UNCHANGED << registry, outsideTranscriber >>

\* set_token_callback: let ctx = *self.ctx.lock().unwrap()
TcSetRead(t) ==
    /\ tc_pc[t] = "setRead"
    /\ ctx_lock = "free"
    /\ tc_pc' = [tc_pc EXCEPT ![t] = "setInsert"]
    /\ UNCHANGED << ctx_lock, engine_callback, native_calls, released, inserted,
                    tc_op, tc_cb, tc_done >>
    /\ UNCHANGED << registry, outsideTranscriber >>

\* registry.insert(ctx_key, boxed_callback) under the registry's lock: the
\* value insert returns, the box stored before, is dropped
TcSetInsert(t) ==
    /\ tc_pc[t] = "setInsert"
    /\ released' = Release(released, registry, Ctx)
    /\ registry' = RegistryInsert(registry, Ctx, BoxedCallback(tc_cb[t]))
    /\ inserted' = inserted \cup {tc_cb[t]}
    /\ tc_pc' = [tc_pc EXCEPT ![t] = "setNative"]
    /\ UNCHANGED << ctx_lock, engine_callback, native_calls, tc_op, tc_cb, tc_done >>
    /\ UNCHANGED outsideTranscriber

\* qwen_set_token_callback(ctx, Some(trampoline), userdata) is entered, no
\* lock held
TcSetNative(t) ==
    /\ tc_pc[t] = "setNative"
    /\ native_calls' = native_calls \cup {<<t, "qwen_set_token_callback">>}
    /\ engine_callback' = "trampoline"
    /\ tc_pc' = [tc_pc EXCEPT ![t] = "setReturn"]
    /\ UNCHANGED << ctx_lock, released, inserted, tc_op, tc_cb, tc_done >>
    /\ UNCHANGED << registry, outsideTranscriber >>

TcSetReturn(t) ==
    /\ tc_pc[t] = "setReturn"
    /\ native_calls' = native_calls \ {<<t, "qwen_set_token_callback">>}
    /\ tc_pc' = [tc_pc EXCEPT ![t] = "idle"]
    /\ tc_op' = [tc_op EXCEPT ![t] = "none"]
    /\ tc_done' = [tc_done EXCEPT ![t] = @ + 1]
    /\ UNCHANGED << ctx_lock, engine_callback, released, inserted, tc_cb >>
    /\ UNCHANGED << registry, outsideTranscriber >>

\* set_language: let ctx = self.ctx.lock().unwrap(), then
\* qwen_set_force_language(*ctx, ..) with the guard alive
TcLanguageLock(t) ==
    /\ tc_pc[t] = "languageLock"
    /\ ctx_lock = "free"
    /\ ctx_lock' = t
    /\ native_calls' = native_calls \cup {<<t, "qwen_set_force_language">>}
    /\ tc_pc' = [tc_pc EXCEPT ![t] = "languageReturn"]
    /\ UNCHANGED << engine_callback, released, inserted, tc_op, tc_cb, tc_done >>
    /\ UNCHANGED << registry, outsideTranscriber >>

\* the native call returns and the guard is dropped; a transcribe call goes
\* on when the language was set and returns the Config error otherwise
TcLanguageReturn(t) ==
    /\ tc_pc[t] = "languageReturn"
    /\ native_calls' = native_calls \ {<<t, "qwen_set_force_language">>}
    /\ ctx_lock' = "free"
    /\ \E ok \in BOOLEAN :
         IF tc_op[t] = "transcribe" /\ ok
         THEN /\ tc_pc' = [tc_pc EXCEPT ![t] = "transcribeLock"]
              /\ UNCHANGED << tc_op, tc_done >>
         ELSE /\ tc_pc' = [tc_pc EXCEPT ![t] = "idle"]
              /\ tc_op' = [tc_op EXCEPT ![t] = "none"]
              /\ tc_done' = [tc_done EXCEPT ![t] = @ + 1]
    /\ UNCHANGED << engine_callback, released, inserted, tc_cb >>
    /\ UNCHANGED << registry, outsideTranscriber >>

\* let ctx = self.ctx.lock().unwrap(), then the native transcribe call with
\* the guard alive
TcTranscribeLock(t) ==
    /\ tc_pc[t] = "transcribeLock"
    /\ ctx_lock = "free"
    /\ ctx_lock' = t
    /\ native_calls' = native_calls \cup {<<t, "qwen_transcribe">>}
    /\ tc_pc' = [tc_pc EXCEPT ![t] = "transcribeReturn"]
    /\ UNCHANGED << engine_callback, released, inserted, tc_op, tc_cb, tc_done >>
    /\ UNCHANGED << registry, outsideTranscriber >>

\* the native call returns, the guard is dropped at the end of the function
TcTranscribeReturn(t) ==
    /\ tc_pc[t] = "transcribeReturn"
    /\ native_calls' = native_calls \ {<<t, "qwen_transcribe">>}
    /\ ctx_lock' = "free"
    /\ tc_pc' = [tc_pc EXCEPT ![t] = "idle"]
    /\ tc_op' = [tc_op EXCEPT ![t] = "none"]
    /\ tc_done' = [tc_done EXCEPT ![t] = @ + 1]
    /\ UNCHANGED << engine_callback, released, inserted, tc_cb >>
    /\ UNCHANGED << registry, outsideTranscriber >>

\* a transcriber fresh from QwenTranscriber::new: nothing registered
InitTranscriber ==
    /\ registry = [c \in {} |-> BoxedCallback(0)]
    /\ TranscriberIdle
    /\ InitSession
    /\ RetryIdle
    /\ OthersIdle

NextTranscriber ==
    \E t \in Clients :
        \/ TcBegin(t)
        \/ TcClearRead(t)
        \/ TcClearRemove(t)
        \/ TcClearNative(t)
        \/ TcClearReturn(t)
        \/ TcSetRead(t)
        \/ TcSetInsert(t)
        \/ TcSetNative(t)
        \/ TcSetReturn(t)
        \/ TcLanguageLock(t)
        \/ TcLanguageReturn(t)
        \/ TcTranscribeLock(t)
        \/ TcTranscribeReturn(t)

SpecTranscriber == InitTranscriber /\ [][NextTranscriber]_vars

----------------------------------------------------------------------------
(* with_retry (retry.rs): one call, on an operation whose outcomes are       *)
(* scripted                                                                  *)

\* the largest max_attempts tried; the operation's script is that long
MaxAttempts == 3

\* HttpResult<T>
Success(v) == [kind |-> "Success", value |-> v]
Retryable == [kind |-> "Retryable"]
NonRetryable(msg) == [kind |-> "NonRetryable", msg |-> msg]

HttpResults == {Success("v"), Retryable, NonRetryable("bad request")}

RECURSIVE Scripts(_)
\* the sequences of n outcomes
Scripts(n) ==
    IF n = 0 THEN {<<>>}
    ELSE {Append(sq, o) : sq \in Scripts(n - 1), o \in HttpResults}

\* the error_message argument
ErrorMessage == "request failed"

\* an exhaustion error that is the bare message (mutant of RetriesExceeded)
RetriesExceededBare(message) == << message >>

\* format!("{}: retries exceeded", error_message)
RetriesExceeded(message) == << message, ": retries exceeded" >>

RECURSIVE Pow2(_)
\* 2u64.pow(attempt); attempt stays far below 64
Pow2(n) == IF n = 0 THEN 1 ELSE 2 * Pow2(n - 1)

\* a non-retryable error reported as exhaustion (mutant of NonRetryableResult)
NonRetryableAsExceeded(msg) == Err(<< msg, ": retries exceeded" >>)

\* HttpResult::NonRetryable(msg) => return Err(msg)
NonRetryableResult(msg) == Err(msg)

\* a sleep after every retryable outcome, the last included (mutant of
\* SleepsBeforeNext)
SleepsAlways(a, max) == TRUE

\* a loop that stops one attempt early (mutant of InRange)
InRangeShort(a, max) == a < max - 1

\* for attempt in 0..max_attempts
InRange(a, max) == a < max

\* if attempt < max_attempts - 1: there is another attempt to sleep for
SleepsBeforeNext(a, max) == a < max - 1

\* a call with_retry(max_attempts, operation, error_message), max_attempts >= 1
\* (the assert!), on an operation that returns script[n] on its call number n
InitRetry ==
    /\ max_attempts \in 1..MaxAttempts
    /\ script \in Scripts(MaxAttempts)
    /\ retry_pc = "loop"
    /\ attempt = 0
    /\ calls = 0
    /\ sleeps = <<>>
    /\ retry_result = None
    /\ registry = [c \in {Ctx} |-> StoredCallback]
    /\ InitSession
    /\ TranscriberIdle
    /\ OthersIdle

\* the head of the for loop: the next attempt, or, the range exhausted, the
\* Err after the loop
RetryLoop ==
    /\ retry_pc = "loop"
    /\ IF InRange(attempt, max_attempts)
       THEN /\ retry_pc' = "call"
            /\ UNCHANGED retry_result
       ELSE /\ retry_result' = Err(RetriesExceeded(ErrorMessage))
            /\ retry_pc' = "done"
    /\ UNCHANGED << max_attempts, script, attempt, calls, sleeps >>
    /\ UNCHANGED outsideRetry

\* match operation(): Success(v) => return Ok(v), NonRetryable(msg) =>
\* return Err(msg), Retryable => sleep when another attempt follows
RetryCall ==
    /\ retry_pc = "call"
    /\ calls' = calls + 1
    /\ LET outcome == script[calls + 1]
       IN  IF outcome.kind = "Success"
           THEN /\ retry_result' = Ok(outcome.value)
                /\ retry_pc' = "done"
                /\ UNCHANGED attempt
           ELSE IF outcome.kind = "NonRetryable"
           THEN /\ retry_result' = NonRetryableResult(outcome.msg)
                /\ retry_pc' = "done"
                /\ UNCHANGED attempt
           ELSE IF SleepsBeforeNext(attempt, max_attempts)
           THEN /\ retry_pc' = "sleep"
                /\ UNCHANGED << attempt, retry_result >>
           ELSE /\ attempt' = attempt + 1
                /\ retry_pc' = "loop"
                /\ UNCHANGED retry_result
    /\ UNCHANGED << max_attempts, script, sleeps >>
    /\ UNCHANGED outsideRetry

\* sleep(Duration::from_secs(2u64.pow(attempt))), then the next iteration
RetrySleep ==
    /\ retry_pc = "sleep"
    /\ sleeps' = Append(sleeps, Pow2(attempt))
    /\ attempt' = attempt + 1
    /\ retry_pc' = "loop"
    /\ UNCHANGED << max_attempts, script, calls, retry_result >>
    /\ UNCHANGED outsideRetry

NextRetry ==
    \/ RetryLoop
    \/ RetryCall
    \/ RetrySleep

SpecRetry == InitRetry /\ [][NextRetry]_vars

----------------------------------------------------------------------------
(* is_retryable_status (retry.rs)                                            *)

\* the values a StatusCode can hold
StatusCodes == 100..999

\* a server-error test that takes in the client errors (mutant of
\* IsServerError)
IsServerErrorOrClient(s) == 400 <= s /\ s < 600

\* StatusCode::is_server_error
IsServerError(s) == 500 <= s /\ s < 600

\* status == StatusCode::TOO_MANY_REQUESTS || status.is_server_error()
IsRetryableStatus(s) == s = 429 \/ IsServerError(s)

InitStatus ==
    /\ status \in StatusCodes
    /\ status_pc = "call"
    /\ status_retryable = FALSE
    /\ GroqIdle
    /\ LibIdle
    /\ RecIdle
    /\ ResampleIdle
    /\ LockIdle
    /\ AsrIdle
    /\ registry = [c \in {Ctx} |-> StoredCallback]
    /\ InitSession
    /\ TranscriberIdle
    /\ RetryIdle

\* the call is_retryable_status(status)
ClassifyStatus ==
    /\ status_pc = "call"
    /\ status_retryable' = IsRetryableStatus(status)
    /\ status_pc' = "done"
    /\ UNCHANGED status
    /\ UNCHANGED outsideStatus

NextStatus == ClassifyStatus

SpecStatus == InitStatus /\ [][NextStatus]_vars

----------------------------------------------------------------------------
(* The two network-facing callers on the same sequence of responses:         *)
(* polish_text, which runs with_retry(3, ..), and transcribe_wav_bytes,      *)
(* which has a retry loop of its own                                         *)

\* with_retry(3, ..) in polish_text
PolishMaxAttempts == 3

\* for attempt in 0..3 in transcribe_wav_bytes
GroqAttempts == 3

\* what client.post(..).send() can yield: a response with a status (and, for
\* 200, a text that is empty or not after trim), or a transport error
Responses ==
    {[kind |-> "response", status |-> 200, text |-> "text"],
     [kind |-> "response", status |-> 200, text |-> ""],
     [kind |-> "response", status |-> 429, text |-> ""],
     [kind |-> "response", status |-> 503, text |-> ""],
     [kind |-> "response", status |-> 400, text |-> ""],
     [kind |-> "error", status |-> 0, text |-> "connection reset"]}

RECURSIVE ResponseSeqs(_)
\* the sequences of n responses
ResponseSeqs(n) ==
    IF n = 0 THEN {<<>>}
    ELSE {Append(sq, r) : sq \in ResponseSeqs(n - 1), r \in Responses}

\* the closure polish_text passes to with_retry: the match on the response
PolishOperation(resp) ==
    IF resp.kind = "error" THEN Retryable
    ELSE IF resp.status = 200
    THEN IF resp.text = "" THEN NonRetryable("Empty response")
         ELSE Success(resp.text)
    ELSE IF IsRetryableStatus(resp.status) THEN Retryable
    ELSE NonRetryable(<< "Gemini API error: HTTP", resp.status >>)

\* polish_text and transcribe_wav_bytes are called; each of their requests
\* number n yields responses[n]
InitCallers ==
    /\ responses \in ResponseSeqs(GroqAttempts)
    /\ max_attempts = PolishMaxAttempts
    /\ script = [n \in 1..Len(responses) |-> PolishOperation(responses[n])]
    /\ retry_pc = "loop"
    /\ attempt = 0
    /\ calls = 0
    /\ sleeps = <<>>
    /\ retry_result = None
    /\ groq_pc = "loop"
    /\ groq_attempt = 0
    /\ groq_calls = 0
    /\ groq_sleeps = <<>>
    /\ groq_result = None
    /\ StatusIdle
    /\ LibIdle
    /\ RecIdle
    /\ ResampleIdle
    /\ LockIdle
    /\ AsrIdle
    /\ registry = [c \in {Ctx} |-> StoredCallback]
    /\ InitSession
    /\ TranscriberIdle

\* the head of `for attempt in 0..3`: the next attempt, or the Err after the
\* loop
GroqLoop ==
    /\ groq_pc = "loop"
    /\ IF groq_attempt < GroqAttempts
       THEN /\ groq_pc' = "send"
            /\ UNCHANGED groq_result
       ELSE /\ groq_result' = Err(<< "Api", "Groq API retries exceeded" >>)
            /\ groq_pc' = "done"
    /\ UNCHANGED << responses, groq_attempt, groq_calls, groq_sleeps >>
    /\ UNCHANGED outsideGroq

\* send() and the match on the response: 200 returns the text (or
\* EmptyResponse), 429 and 5xx sleep and continue, another status returns the
\* Api error, a transport error sleeps and continues while attempt < 2 and
\* returns the Http error on the last attempt
GroqSend ==
    /\ groq_pc = "send"
    /\ groq_calls' = groq_calls + 1
    /\ LET resp == responses[groq_calls + 1]
       IN  IF resp.kind = "response" /\ resp.status = 200
           THEN /\ groq_result' = IF resp.text = "" THEN Err(<< "EmptyResponse" >>)
                                  ELSE Ok(resp.text)
                /\ groq_pc' = "done"
           ELSE IF resp.kind = "response"
                   /\ (resp.status = 429 \/ IsServerError(resp.status))
           THEN /\ groq_pc' = "sleep"
                /\ UNCHANGED groq_result
           ELSE IF resp.kind = "response"
           THEN /\ groq_result' = Err(<< "Api", "Groq API error: HTTP", resp.status >>)
                /\ groq_pc' = "done"
           ELSE IF groq_attempt < GroqAttempts - 1
           THEN /\ groq_pc' = "sleep"
                /\ UNCHANGED groq_result
           ELSE /\ groq_result' = Err(<< "Http", resp.text >>)
                /\ groq_pc' = "done"
    /\ UNCHANGED << responses, groq_attempt, groq_sleeps >>
    /\ UNCHANGED outsideGroq

\* sleep(Duration::from_secs(2u64.pow(attempt))); continue
GroqSleep ==
    /\ groq_pc = "sleep"
    /\ groq_sleeps' = Append(groq_sleeps, Pow2(groq_attempt))
    /\ groq_attempt' = groq_attempt + 1
    /\ groq_pc' = "loop"
    /\ UNCHANGED << responses, groq_calls, groq_result >>
    /\ UNCHANGED outsideGroq

NextCallers ==
    \/ RetryLoop
    \/ RetryCall
    \/ RetrySleep
    \/ GroqLoop
    \/ GroqSend
    \/ GroqSleep

SpecCallers == InitCallers /\ [][NextCallers]_vars

----------------------------------------------------------------------------
(* The session registry of lib.rs: start_streaming_session,                  *)
(* get_streaming_text, is_streaming_session_active, stop_streaming_session,  *)
(* called from several threads                                               *)

\* start_streaming_session calls made in all
MaxSessions == 2

\* the session ids a caller may pass
SessionIds == 1..MaxSessions

\* a counter that hands out the same value again (mutant of FetchAdd)
FetchAddStuck(n) == n

\* NEXT_SESSION_ID.fetch_add(1, SeqCst): the new value of the counter
FetchAdd(n) == n + 1

\* a guard that stays locked at the end of its block (mutant of GuardDropped)
GuardKept(t) == t

\* the holder of the registry mutex once the guard of thread t has gone out
\* of scope
GuardDropped(t) == "free"

\* a handle that has a second strong reference (mutant of NewHandle)
NewHandleShared == [stop_flag |-> FALSE, text |-> <<>>, strong |-> 2]

\* a handle whose stop flag is already set (mutant of NewHandle)
NewHandleStopped == [stop_flag |-> TRUE, text |-> <<>>, strong |-> 1]

\* the handle start_streaming_transcription returns, as the registry stores
\* it: Arc::new(handle), one strong reference
NewHandle == [stop_flag |-> FALSE, text |-> <<>>, strong |-> 1]

\* sessions.iter().position(|(id, _)| *id == session_id): 0 stands for None
Position(sessions, id) ==
    IF \E i \in 1..Len(sessions) : sessions[i].id = id
    THEN CHOOSE i \in 1..Len(sessions) :
            /\ sessions[i].id = id
            /\ \A j \in 1..(i - 1) : sessions[j].id # id
    ELSE 0

\* a removal that leaves the vector as it is (mutant of VecRemove)
VecRemoveKeeps(sessions, idx) == sessions

\* sessions.remove(idx)
VecRemove(sessions, idx) ==
    [i \in 1..(Len(sessions) - 1) |->
        IF i < idx THEN sessions[i] ELSE sessions[i + 1]]

\* the ids in the registry
RegisteredIds == {active_sessions[i].id : i \in 1..Len(active_sessions)}

\* what handle.stop() can return
StopResults == {Ok(<<>>), Err("Audio capture failed")}

\* a thread calls start_streaming_session
LsStartBegin(t) ==
    /\ ls_pc[t] = "idle"
    /\ starts_begun < MaxSessions
    /\ starts_begun' = starts_begun + 1
    /\ ls_op' = [ls_op EXCEPT ![t] = "start"]
    /\ ls_pc' = [ls_pc EXCEPT ![t] = "startSession"]
    /\ returned_at_begin' =
          [returned_at_begin EXCEPT
             ![t] = {start_returned[i] : i \in 1..Len(start_returned)}]
    /\ ls_ret' = [ls_ret EXCEPT ![t] = None]
    /\ UNCHANGED << next_session_id, active_sessions, sessions_lock, ls_arg,
                    ls_handle, start_returned, stopped >>
    /\ UNCHANGED outsideLib

\* QwenTranscriber::new(path)? and start_streaming_transcription(..)?: either
\* fails and the function returns the error, no id drawn
LsStartSession(t) ==
    /\ ls_pc[t] = "startSession"
    /\ \E ok \in BOOLEAN :
         IF ok
         THEN /\ ls_pc' = [ls_pc EXCEPT ![t] = "fetchAdd"]
              /\ UNCHANGED << ls_op, ls_ret, returned_at_begin >>
         ELSE /\ ls_ret' = [ls_ret EXCEPT ![t] =
                    [op |-> "start", arg |-> 0, value |-> Err("Failed to load model")]]
              /\ ls_op' = [ls_op EXCEPT ![t] = "none"]
              /\ ls_pc' = [ls_pc EXCEPT ![t] = "idle"]
              /\ returned_at_begin' = [returned_at_begin EXCEPT ![t] = {}]
    /\ UNCHANGED << next_session_id, active_sessions, sessions_lock, ls_arg,
                    ls_handle, starts_begun, start_returned, stopped >>
    /\ UNCHANGED outsideLib

\* let session_id = NEXT_SESSION_ID.fetch_add(1, SeqCst)
LsFetchAdd(t) ==
    /\ ls_pc[t] = "fetchAdd"
    /\ ls_arg' = [ls_arg EXCEPT ![t] = next_session_id]
    /\ next_session_id' = FetchAdd(next_session_id)
    /\ ls_pc' = [ls_pc EXCEPT ![t] = "startLock"]
    /\ UNCHANGED << active_sessions, sessions_lock, ls_op, ls_handle, ls_ret,
                    starts_begun, start_returned, returned_at_begin, stopped >>
    /\ UNCHANGED outsideLib

\* ACTIVE_STREAMING_SESSIONS.lock().unwrap(), in any of the four functions
LsLock(t) ==
    /\ ls_pc[t] \in {"startLock", "pollLock", "stopLock"}
    /\ sessions_lock = "free"
    /\ sessions_lock' = t
    /\ ls_pc' = [ls_pc EXCEPT ![t] =
                   IF ls_pc[t] = "startLock" THEN "push"
                   ELSE IF ls_pc[t] = "pollLock" THEN "pollRead" ELSE "stopTake"]
    /\ UNCHANGED << next_session_id, active_sessions, ls_op, ls_arg, ls_handle,
                    ls_ret, starts_begun, start_returned, returned_at_begin,
                    stopped >>
    /\ UNCHANGED outsideLib

\* sessions.push((session_id, Arc::new(handle))); Ok(session_id)
LsStartPush(t) ==
    /\ ls_pc[t] = "push"
    /\ active_sessions' =
          Append(active_sessions, [id |-> ls_arg[t], handle |-> NewHandle])
    /\ sessions_lock' = "free"
    /\ ls_ret' = [ls_ret EXCEPT ![t] =
                    [op |-> "start", arg |-> 0, value |-> Ok(ls_arg[t])]]
    /\ start_returned' = Append(start_returned, ls_arg[t])
    /\ ls_op' = [ls_op EXCEPT ![t] = "none"]
    /\ ls_arg' = [ls_arg EXCEPT ![t] = 0]
    /\ ls_pc' = [ls_pc EXCEPT ![t] = "idle"]
    /\ returned_at_begin' = [returned_at_begin EXCEPT ![t] = {}]
    /\ UNCHANGED << next_session_id, ls_handle, starts_begun, stopped >>
    /\ UNCHANGED outsideLib

\* a thread calls get_streaming_text(id) or is_streaming_session_active(id)
LsPollBegin(t) ==
    /\ ls_pc[t] = "idle"
    /\ \E op \in {"get_text", "is_active"}, id \in SessionIds :
         /\ ls_op' = [ls_op EXCEPT ![t] = op]
         /\ ls_arg' = [ls_arg EXCEPT ![t] = id]
    /\ ls_pc' = [ls_pc EXCEPT ![t] = "pollLock"]
    /\ ls_ret' = [ls_ret EXCEPT ![t] = None]
    /\ UNCHANGED << next_session_id, active_sessions, sessions_lock, ls_handle,
                    starts_begun, start_returned, returned_at_begin, stopped >>
    /\ UNCHANGED outsideLib

\* sessions.iter().find(..): handle.current_text() / handle.is_running(), or
\* String::new() / false when the id is not found; the guard is dropped at
\* the return
LsPollRead(t) ==
    /\ ls_pc[t] = "pollRead"
    /\ LET idx == Position(active_sessions, ls_arg[t])
           value == IF ls_op[t] = "get_text"
                    THEN (IF idx = 0 THEN <<>> ELSE active_sessions[idx].handle.text)
                    ELSE (IF idx = 0 THEN FALSE
                          ELSE ~active_sessions[idx].handle.stop_flag)
       IN  ls_ret' = [ls_ret EXCEPT ![t] =
                        [op |-> ls_op[t], arg |-> ls_arg[t], value |-> value]]
    /\ sessions_lock' = "free"
    /\ ls_op' = [ls_op EXCEPT ![t] = "none"]
    /\ ls_arg' = [ls_arg EXCEPT ![t] = 0]
    /\ ls_pc' = [ls_pc EXCEPT ![t] = "idle"]
    /\ UNCHANGED << next_session_id, active_sessions, ls_handle,
                    starts_begun, start_returned, returned_at_begin, stopped >>
    /\ UNCHANGED outsideLib

\* a thread calls stop_streaming_session(id)
LsStopBegin(t) ==
    /\ ls_pc[t] = "idle"
    /\ \E id \in SessionIds : ls_arg' = [ls_arg EXCEPT ![t] = id]
    /\ ls_op' = [ls_op EXCEPT ![t] = "stop"]
    /\ ls_pc' = [ls_pc EXCEPT ![t] = "stopLock"]
    /\ ls_ret' = [ls_ret EXCEPT ![t] = None]
    /\ UNCHANGED << next_session_id, active_sessions, sessions_lock, ls_handle,
                    starts_begun, start_returned, returned_at_begin, stopped >>
    /\ UNCHANGED outsideLib

\* the block under the lock: position, remove, Arc::try_unwrap (Ok when the
\* registry's reference was the only one; otherwise the entry is pushed back
\* and the function returns "still in use"), or "not found"; the guard is
\* dropped at the end of the block
LsStopTake(t) ==
    /\ ls_pc[t] = "stopTake"
    /\ LET idx == Position(active_sessions, ls_arg[t])
       IN  IF idx = 0
           THEN /\ ls_ret' = [ls_ret EXCEPT ![t] =
                      [op |-> "stop", arg |-> ls_arg[t],
                       value |-> Err("Streaming session not found")]]
                /\ ls_op' = [ls_op EXCEPT ![t] = "none"]
                /\ ls_pc' = [ls_pc EXCEPT ![t] = "idle"]
                /\ UNCHANGED << active_sessions, ls_handle, stopped >>
           ELSE IF active_sessions[idx].handle.strong = 1
           THEN /\ active_sessions' = VecRemove(active_sessions, idx)
                /\ ls_handle' = [ls_handle EXCEPT ![t] = active_sessions[idx].handle]
                /\ stopped' = stopped \cup {ls_arg[t]}
                /\ ls_pc' = [ls_pc EXCEPT ![t] = "stopFlag"]
                /\ UNCHANGED << ls_op, ls_ret >>
           ELSE /\ active_sessions' =
                      Append(VecRemove(active_sessions, idx), active_sessions[idx])
                /\ ls_ret' = [ls_ret EXCEPT ![t] =
                      [op |-> "stop", arg |-> ls_arg[t],
                       value |-> Err("Streaming session is still in use")]]
                /\ ls_op' = [ls_op EXCEPT ![t] = "none"]
                /\ ls_pc' = [ls_pc EXCEPT ![t] = "idle"]
                /\ UNCHANGED << ls_handle, stopped >>
    /\ sessions_lock' = GuardDropped(t)
    /\ UNCHANGED << next_session_id, ls_arg, starts_begun, start_returned,
                    returned_at_begin >>
    /\ UNCHANGED outsideLib

\* handle.stop() begins: self.stop_flag.store(true), on the handle taken out
\* of the registry
LsStopFlag(t) ==
    /\ ls_pc[t] = "stopFlag"
    /\ ls_handle' = [ls_handle EXCEPT ![t] = [@ EXCEPT !.stop_flag = TRUE]]
    /\ ls_pc' = [ls_pc EXCEPT ![t] = "stopJoin"]
    /\ UNCHANGED << next_session_id, active_sessions, sessions_lock, ls_op,
                    ls_arg, ls_ret, starts_begun, start_returned,
                    returned_at_begin, stopped >>
    /\ UNCHANGED outsideLib

\* handle.stop() goes on: joins the threads and returns Ok or Err; the handle
\* is consumed
LsStopJoin(t) ==
    /\ ls_pc[t] = "stopJoin"
    /\ \E res \in StopResults :
         ls_ret' = [ls_ret EXCEPT ![t] =
                      [op |-> "stop", arg |-> ls_arg[t], value |-> res]]
    /\ ls_handle' = [ls_handle EXCEPT ![t] = None]
    /\ ls_op' = [ls_op EXCEPT ![t] = "none"]
    /\ ls_pc' = [ls_pc EXCEPT ![t] = "idle"]
    /\ UNCHANGED << next_session_id, active_sessions, sessions_lock, ls_arg,
                    starts_begun, start_returned, returned_at_begin, stopped >>
    /\ UNCHANGED outsideLib

InitLib ==
    /\ LibIdle
    /\ RecIdle
    /\ ResampleIdle
    /\ LockIdle
    /\ AsrIdle
    /\ StatusIdle
    /\ GroqIdle
    /\ RetryIdle
    /\ TranscriberIdle
    /\ registry = [c \in {Ctx} |-> StoredCallback]
    /\ InitSession

NextLib ==
    \E t \in LibCallers :
        \/ LsStartBegin(t)
        \/ LsStartSession(t)
        \/ LsFetchAdd(t)
        \/ LsLock(t)
        \/ LsStartPush(t)
        \/ LsPollBegin(t)
        \/ LsPollRead(t)
        \/ LsStopBegin(t)
        \/ LsStopTake(t)
        \/ LsStopFlag(t)
        \/ LsStopJoin(t)

SpecLib == InitLib /\ [][NextLib]_vars

----------------------------------------------------------------------------
(* The recorder of audio.rs: start_recording, stop_recording,                *)
(* stop_recording_wav and the callback of the input stream                   *)

\* samples the buffer holds at most
MaxCaptured == 2

\* frames in one block handed to the callback
MaxFramesPerBlock == 2

\* the sample values the device delivers
SampleValues == {0, 2}

\* the stream configurations the device may report: rate and channels
DeviceConfigs == {[sample_rate |-> 16000, channels |-> 1],
                  [sample_rate |-> 48000, channels |-> 2]}

\* why start_recording may fail past the is_recording check
StartFailures == {"AudioDeviceUnavailable",
                  "AudioCapture: default_input_config",
                  "AudioCapture: build_input_stream",
                  "AudioCapture: play"}

\* a check that never finds a recording (mutant of AlreadyActive)
AlreadyActiveNever(state) == FALSE

\* if state.is_recording
AlreadyActive(state) == state.is_recording

\* the sum of a frame's samples
RECURSIVE FrameSum(_)
FrameSum(frame) ==
    IF frame = <<>> THEN 0 ELSE Head(frame) + FrameSum(Tail(frame))

\* data.chunks(channels): the i-th chunk, the last one shorter when the
\* length is not a multiple of channels
Chunk(data, channels, i) ==
    LET first == (i - 1) * channels + 1
        last == IF i * channels < Len(data) THEN i * channels ELSE Len(data)
    IN  SubSeq(data, first, last)

\* how many chunks data.chunks(channels) yields
ChunkCount(data, channels) == (Len(data) + channels - 1) \div channels

\* what a callback pushes for every chunk: the first sample of the frame
\* (mutant of Captured)
CapturedFirstChannel(data, channels) ==
    [i \in 1..ChunkCount(data, channels) |-> Chunk(data, channels, i)[1]]

\* capture_f32: what the callback appends for an interleaved block, the
\* samples as they are for one channel, sum / channels of each chunk
\* otherwise
Captured(data, channels) ==
    IF channels = 1
    THEN data
    ELSE [i \in 1..ChunkCount(data, channels) |->
            FrameSum(Chunk(data, channels, i)) \div channels]

\* the interleaved blocks of whole frames the device may deliver
Blocks(channels) ==
    UNION {[1..(n * channels) -> SampleValues] : n \in 1..MaxFramesPerBlock}

\* a write that leaves is_recording as it is (mutant of Cleared)
ClearedNot(state) == state

\* state.is_recording = false
Cleared(state) == [state EXCEPT !.is_recording = FALSE]

\* the stop that locks the sample buffer before it drops the stream (mutant
\* of StopSteps)
StopStepsLockFirst == <<"lockSamples", "dropStream", "read">>

\* what stop_recording does past its check, in the order of its statements:
\* drop the stream, lock the sample buffer, read it
StopSteps == <<"dropStream", "lockSamples", "read">>

\* the step of a stop that follows step pc
StepAfter(steps, pc) ==
    steps[1 + CHOOSE i \in 1..Len(steps) : steps[i] = pc]

\* why a stop may fail once it has cloned a buffer that is not empty: the
\* encoder's errors, as CoreError::AudioProcessing
ProcessingFailures == {"AudioProcessing"}

\* a thread calls one of the three functions
RecCall(t) ==
    /\ rec_pc[t] = "idle"
    /\ \E op \in {"start", "stop", "stop_wav"} :
         rec_op' = [rec_op EXCEPT ![t] = op]
    /\ rec_pc' = [rec_pc EXCEPT ![t] = "lock"]
    /\ rec_ret' = [rec_ret EXCEPT ![t] = None]
    /\ UNCHANGED << rec_state, rec_samples, rec_lock, rec_samples_lock,
                    rcb_pc, rcb_data >>
    /\ UNCHANGED outsideRecorder

\* start_recording, from RECORDING_STATE.lock() to the return: nothing in it
\* blocks, the guard is dropped at the return
RecStart(t) ==
    /\ rec_pc[t] = "lock"
    /\ rec_op[t] = "start"
    /\ rec_lock = "free"
    /\ IF AlreadyActive(rec_state)
       THEN /\ rec_ret' = [rec_ret EXCEPT ![t] =
                  [op |-> "start", value |-> Err("RecordingAlreadyActive")]]
            /\ UNCHANGED << rec_state, rec_samples >>
       ELSE \/ \E why \in StartFailures :
                 /\ rec_ret' = [rec_ret EXCEPT ![t] =
                       [op |-> "start", value |-> Err(why)]]
                 /\ UNCHANGED << rec_state, rec_samples >>
            \/ \E config \in DeviceConfigs :
                 /\ rec_state' = [is_recording |-> TRUE, stream |-> "Some",
                                  sample_rate |-> config.sample_rate,
                                  channels |-> config.channels]
                 /\ rec_samples' = <<>>
                 /\ rec_ret' = [rec_ret EXCEPT ![t] =
                       [op |-> "start", value |-> Ok(<<>>)]]
    /\ rec_op' = [rec_op EXCEPT ![t] = "none"]
    /\ rec_pc' = [rec_pc EXCEPT ![t] = "idle"]
    /\ UNCHANGED << rec_lock, rec_samples_lock, rcb_pc, rcb_data >>
    /\ UNCHANGED outsideRecorder

\* stop_recording / stop_recording_wav: the lock and the is_recording check;
\* past it is_recording is cleared and the guard is kept
RecStopCheck(t) ==
    /\ rec_pc[t] = "lock"
    /\ rec_op[t] \in {"stop", "stop_wav"}
    /\ rec_lock = "free"
    /\ IF ~rec_state.is_recording
       THEN /\ rec_ret' = [rec_ret EXCEPT ![t] =
                  [op |-> rec_op[t], value |-> Err("RecordingNotActive")]]
            /\ rec_op' = [rec_op EXCEPT ![t] = "none"]
            /\ rec_pc' = [rec_pc EXCEPT ![t] = "idle"]
            /\ UNCHANGED << rec_state, rec_lock >>
       ELSE /\ rec_state' = Cleared(rec_state)
            /\ rec_lock' = t
            /\ rec_pc' = [rec_pc EXCEPT ![t] = StopSteps[1]]
            /\ UNCHANGED << rec_op, rec_ret >>
    /\ UNCHANGED << rec_samples, rec_samples_lock, rcb_pc, rcb_data >>
    /\ UNCHANGED outsideRecorder

\* if let Some(stream) = state.stream.take() { drop(stream) }: the drop
\* returns when no callback is running
RecDropStream(t) ==
    /\ rec_pc[t] = "dropStream"
    /\ rcb_pc = "idle"
    /\ rec_state' = [rec_state EXCEPT !.stream = "None"]
    /\ rec_pc' = [rec_pc EXCEPT ![t] = StepAfter(StopSteps, "dropStream")]
    /\ UNCHANGED << rec_samples, rec_lock, rec_samples_lock, rec_op, rec_ret,
                    rcb_pc, rcb_data >>
    /\ UNCHANGED outsideRecorder

\* state.samples.lock()
RecLockSamples(t) ==
    /\ rec_pc[t] = "lockSamples"
    /\ rec_samples_lock = "free"
    /\ rec_samples_lock' = t
    /\ rec_pc' = [rec_pc EXCEPT ![t] = StepAfter(StopSteps, "lockSamples")]
    /\ UNCHANGED << rec_state, rec_samples, rec_lock, rec_op, rec_ret,
                    rcb_pc, rcb_data >>
    /\ UNCHANGED outsideRecorder

\* "No audio captured" for an empty buffer; otherwise the samples are cloned,
\* processed and encoded; both guards are dropped at the return
RecRead(t) ==
    /\ rec_pc[t] = "read"
    /\ IF rec_samples = <<>>
       THEN rec_ret' = [rec_ret EXCEPT ![t] =
               [op |-> rec_op[t],
                value |-> Err("AudioCapture: No audio captured")]]
       ELSE \/ rec_ret' = [rec_ret EXCEPT ![t] =
                  [op |-> rec_op[t],
                   value |-> Ok([format |-> IF rec_op[t] = "stop" THEN "flac"
                                            ELSE "wav",
                                 captured |-> rec_samples,
                                 sample_rate |-> rec_state.sample_rate])]]
            \/ \E why \in ProcessingFailures :
                  rec_ret' = [rec_ret EXCEPT ![t] =
                     [op |-> rec_op[t], value |-> Err(why)]]
    /\ rec_samples_lock' = "free"
    /\ rec_lock' = "free"
    /\ rec_op' = [rec_op EXCEPT ![t] = "none"]
    /\ rec_pc' = [rec_pc EXCEPT ![t] = "idle"]
    /\ UNCHANGED << rec_state, rec_samples, rcb_pc, rcb_data >>
    /\ UNCHANGED outsideRecorder

\* the running stream invokes its callback with a block
RcbInvoke ==
    /\ rcb_pc = "idle"
    /\ rec_state.stream = "Some"
    /\ \E data \in Blocks(rec_state.channels) :
         /\ Len(rec_samples) + Len(Captured(data, rec_state.channels))
               <= MaxCaptured
         /\ rcb_data' = data
    /\ rcb_pc' = "lock"
    /\ UNCHANGED << rec_state, rec_samples, rec_lock, rec_samples_lock, rec_pc,
                    rec_op, rec_ret >>
    /\ UNCHANGED outsideRecorder

\* capture_*: samples.lock()
RcbLock ==
    /\ rcb_pc = "lock"
    /\ rec_samples_lock = "free"
    /\ rec_samples_lock' = "callback"
    /\ rcb_pc' = "append"
    /\ UNCHANGED << rec_state, rec_samples, rec_lock, rec_pc, rec_op, rec_ret,
                    rcb_data >>
    /\ UNCHANGED outsideRecorder

\* capture_*: the block is appended and the guard dropped at the return
RcbAppend ==
    /\ rcb_pc = "append"
    /\ rec_samples' = rec_samples \o Captured(rcb_data, rec_state.channels)
    /\ rec_samples_lock' = "free"
    /\ rcb_data' = <<>>
    /\ rcb_pc' = "idle"
    /\ UNCHANGED << rec_state, rec_lock, rec_pc, rec_op, rec_ret >>
    /\ UNCHANGED outsideRecorder

InitRecorder ==
    /\ RecIdle
    /\ ResampleIdle
    /\ LockIdle
    /\ AsrIdle
    /\ LibIdle
    /\ StatusIdle
    /\ GroqIdle
    /\ RetryIdle
    /\ TranscriberIdle
    /\ registry = [c \in {Ctx} |-> StoredCallback]
    /\ InitSession

NextRecorder ==
    \/ \E t \in RecCallers :
        \/ RecCall(t)
        \/ RecStart(t)
        \/ RecStopCheck(t)
        \/ RecDropStream(t)
        \/ RecLockSamples(t)
        \/ RecRead(t)
    \/ RcbInvoke
    \/ RcbLock
    \/ RcbAppend

SpecRecorder == InitRecorder /\ [][NextRecorder]_vars

----------------------------------------------------------------------------
(* resample_linear of audio.rs, with the f64 arithmetic of its length and    *)
(* positions: IEEE 754 binary64, round to nearest, ties to even              *)

\* samples in an input
MaxInputLen == 9

\* the (src_rate, dst_rate) pairs resample_linear is called with
RatePairs == {<<9, 7>>, <<7, 9>>, <<48000, 16000>>, <<44100, 16000>>,
              <<8000, 16000>>, <<16000, 16000>>}

\* the sample values of an input
InputValues == {0, 2}

\* natural numbers past 32 bits: little-endian sequences of Limbs digits of
\* LimbBits bits
LimbBits == 16
LimbBase == 2 ^ LimbBits
Limbs == 5

\* the bits of an f64 significand
MantissaBits == 53

Big(n) ==
    [i \in 1..Limbs |->
        IF i = 1 THEN n % LimbBase
        ELSE IF i = 2 THEN (n \div LimbBase) % LimbBase
        ELSE 0]

\* digit i of x, zero outside 1..Limbs
Limb(x, i) == IF i \in 1..Limbs THEN x[i] ELSE 0

\* the digits of x * k + c from digit i on
RECURSIVE MulAddFrom(_, _, _, _)
MulAddFrom(x, k, c, i) ==
    IF i > Limbs THEN <<>>
    ELSE LET t == x[i] * k + c
         IN  << t % LimbBase >> \o MulAddFrom(x, k, t \div LimbBase, i + 1)

\* x * k + c
BigMulAdd(x, k, c) == MulAddFrom(x, k, c, 1)

\* -1, 0, 1 as x is below, equal to, above y, from digit i down
RECURSIVE CompareFrom(_, _, _)
CompareFrom(x, y, i) ==
    IF i = 0 THEN 0
    ELSE IF x[i] < y[i] THEN -1
    ELSE IF x[i] > y[i] THEN 1
    ELSE CompareFrom(x, y, i - 1)

BigCompare(x, y) == CompareFrom(x, y, Limbs)

\* the digits of x - y - borrow from digit i on, for x >= y
RECURSIVE SubFrom(_, _, _, _)
SubFrom(x, y, borrow, i) ==
    IF i > Limbs THEN <<>>
    ELSE LET t == x[i] - y[i] - borrow
         IN  IF t < 0
             THEN << t + LimbBase >> \o SubFrom(x, y, 1, i + 1)
             ELSE << t >> \o SubFrom(x, y, 0, i + 1)

BigSub(x, y) == SubFrom(x, y, 0, 1)

BigOdd(x) == x[1] % 2 = 1

\* x \div 2^n
BigShiftRight(x, n) ==
    LET s == n \div LimbBits
        t == n % LimbBits
    IN  [i \in 1..Limbs |->
            (Limb(x, i + s) \div (2 ^ t))
              + (Limb(x, i + s + 1) % (2 ^ t)) * (2 ^ (LimbBits - t))]

\* x * 2^n, for a product that fits
BigShiftLeft(x, n) ==
    LET s == n \div LimbBits
        t == n % LimbBits
    IN  [i \in 1..Limbs |->
            ((Limb(x, i - s) * (2 ^ t)) % LimbBase)
              + (Limb(x, i - s - 1) \div (2 ^ (LimbBits - t)))]

\* whether the n low bits of x are zero
LowBitsZero(x, n) == BigShiftLeft(BigShiftRight(x, n), n) = x

\* bit n of x, bit 0 the lowest
BigBit(x, n) == BigOdd(BigShiftRight(x, n))

\* 2^n
BigTwoTo(n) == BigShiftLeft(Big(1), n)

\* the number of bits of x > 0
BigBitLen(x) ==
    LET top == CHOOSE i \in 1..Limbs :
                  x[i] # 0 /\ \A j \in (i + 1)..Limbs : x[j] = 0
        len == CHOOSE k \in 1..LimbBits : x[top] < 2 ^ k /\ x[top] >= 2 ^ (k - 1)
    IN  (top - 1) * LimbBits + len

\* a number below 2^31 as an integer
BigToInt(x) == x[1] + x[2] * LimbBase

\* an f64 other than zero is m * 2^e with m a significand of MantissaBits
\* bits; an integer n is carried as n * 2^0 until it is divided or multiplied
IntAsF64(n) == [m |-> Big(n), e |-> 0]

\* the significand q, with the bits below it summed up in guard and sticky,
\* rounded to nearest, ties to even; a carry out of the top bit moves the
\* exponent
RoundNearestEven(q, e, guard, sticky) ==
    IF guard /\ (sticky \/ BigOdd(q))
    THEN LET up == BigMulAdd(q, 1, 1)
         IN  IF BigCompare(up, BigTwoTo(MantissaBits)) = 0
             THEN [m |-> BigShiftRight(up, 1), e |-> e + 1]
             ELSE [m |-> up, e |-> e]
    ELSE [m |-> q, e |-> e]

\* one step of the long division: the next quotient bit of r / b
DivStep(st, b) ==
    LET r2 == BigMulAdd(st.r, 2, 0)
    IN  IF BigCompare(r2, b) >= 0
        THEN [q |-> BigMulAdd(st.q, 2, 1), r |-> BigSub(r2, b)]
        ELSE [q |-> BigMulAdd(st.q, 2, 0), r |-> r2]

\* k steps of it, the first half of them carried out before the second
RECURSIVE DivBits(_, _, _)
DivBits(st, b, k) ==
    IF k = 0 THEN st
    ELSE IF k = 1 THEN DivStep(st, b)
    ELSE LET half == DivBits(st, b, k \div 2)
         IN  IF half.q = half.q THEN DivBits(half, b, k - k \div 2) ELSE half

\* a / b for b <= a < 2b, times 2^e: the quotient rounded to an f64
DivNormal(a, b, e) ==
    LET d == DivBits([q |-> Big(1), r |-> BigSub(a, b)], b, MantissaBits - 1)
        twice == BigCompare(BigMulAdd(d.r, 2, 0), b)
    IN  RoundNearestEven(d.q, e - (MantissaBits - 1), twice >= 0, twice > 0)

\* a / b times 2^e for any a, b > 0: the operands are brought to the same
\* number of bits, and a doubled once more if it is still below b
BigDiv(a, b, e) ==
    LET la == BigBitLen(a)
        lb == BigBitLen(b)
        a1 == IF la < lb THEN BigShiftLeft(a, lb - la) ELSE a
        b1 == IF lb < la THEN BigShiftLeft(b, la - lb) ELSE b
        e1 == e + la - lb
    IN  IF BigCompare(a1, b1) < 0
        THEN DivNormal(BigMulAdd(a1, 2, 0), b1, e1 - 1)
        ELSE DivNormal(a1, b1, e1)

\* x / y in f64
F64Div(x, y) == BigDiv(x.m, y.m, x.e - y.e)

\* the product p * 2^e brought down to MantissaBits bits and rounded
RoundProduct(p, e) ==
    LET drop == BigBitLen(p) - MantissaBits
    IN  IF drop <= 0 THEN [m |-> p, e |-> e]
        ELSE RoundNearestEven(BigShiftRight(p, drop), e + drop,
                              BigBit(p, drop - 1),
                              ~LowBitsZero(p, drop - 1))

\* i as f64 * x, for a small integer i >= 1 and a normalised x
F64MulInt(i, x) == RoundProduct(BigMulAdd(x.m, i, 0), x.e)

\* x.floor() as usize, for 0 < x < 2^31
F64Floor(x) ==
    IF x.e >= 0 THEN BigToInt(BigShiftLeft(x.m, x.e))
    ELSE IF -x.e >= Limbs * LimbBits THEN 0
    ELSE BigToInt(BigShiftRight(x.m, -x.e))

\* whether x is a whole number
F64IsWhole(x) ==
    x.e >= 0 \/ (-x.e < Limbs * LimbBits /\ LowBitsZero(x.m, -x.e))

\* let ratio = src_rate as f64 / dst_rate as f64
Ratio(src_rate, dst_rate) == F64Div(IntAsF64(src_rate), IntAsF64(dst_rate))

\* ((input.len() as f64) / ratio).floor() as usize
OutputLen(len, src_rate, dst_rate) ==
    F64Floor(F64Div(IntAsF64(len), Ratio(src_rate, dst_rate)))

\* a sample known exactly, as an interval
Exactly(v) == [lo |-> v, hi |-> v]

\* input.to_vec()
ToVec(input) == [i \in 1..Len(input) |-> Exactly(input[i])]

\* s0 + (s1 - s0) * frac for a fraction in [0, 1): s0 when the fraction is
\* zero or the two samples are equal, a value between s0 and s1 otherwise
Interpolate(s0, s1, frac_zero) ==
    IF frac_zero \/ s0 = s1 THEN Exactly(s0)
    ELSE [lo |-> IF s0 < s1 THEN s0 ELSE s1, hi |-> IF s0 < s1 THEN s1 ELSE s0]

\* the body of the loop for i (from 0): src_pos, idx, frac, s0, s1, the push
OutputSample(input, ratio, i) ==
    LET src_pos == F64MulInt(i, ratio)
        idx == IF i = 0 THEN 0 ELSE F64Floor(src_pos)
        frac_zero == IF i = 0 THEN TRUE ELSE F64IsWhole(src_pos)
        s0 == IF idx < Len(input) THEN input[idx + 1] ELSE 0
        s1 == IF idx + 1 < Len(input) THEN input[idx + 2] ELSE s0
    IN  Interpolate(s0, s1, frac_zero)

\* resample_linear
ResampleLinear(input, src_rate, dst_rate) ==
    IF input = <<>> \/ src_rate = dst_rate THEN ToVec(input)
    ELSE LET ratio == Ratio(src_rate, dst_rate)
             output_len == F64Floor(F64Div(IntAsF64(Len(input)), ratio))
         IN  [n \in 1..output_len |-> OutputSample(input, ratio, n - 1)]

\* the inputs of a call
Inputs == UNION {[1..n -> InputValues] : n \in 0..MaxInputLen}

InitResample ==
    /\ rs_input \in Inputs
    /\ \E pair \in RatePairs : rs_src = pair[1] /\ rs_dst = pair[2]
    /\ rs_pc = "call"
    /\ rs_output = <<>>
    /\ LockIdle
    /\ AsrIdle
    /\ RecIdle
    /\ LibIdle
    /\ StatusIdle
    /\ GroqIdle
    /\ RetryIdle
    /\ TranscriberIdle
    /\ registry = [c \in {Ctx} |-> StoredCallback]
    /\ InitSession

\* the call returns
ResampleCall ==
    /\ rs_pc = "call"
    /\ rs_output' = ResampleLinear(rs_input, rs_src, rs_dst)
    /\ rs_pc' = "done"
    /\ UNCHANGED << rs_input, rs_src, rs_dst >>
    /\ UNCHANGED outsideResample

NextResample == ResampleCall

SpecResample == InitResample /\ [][NextResample]_vars

----------------------------------------------------------------------------
(* Claims *)

\* the worker threads of the session have both terminated
WorkersTerminated == audio_pc = "done" /\ inf_pc = "done"

\* a step of a worker thread or of a callback invocation in progress: no new
\* audio from the device, no step of the caller
WorkerProgress == AudioStep \/ CbStep \/ InfStep

\* C1: the live buffer is destroyed only once both worker threads have
\* terminated: neither the audio thread nor the device callback touches the
\* buffer (its fields, its mutex, its condition variable) after the inference
\* thread has freed it.
NoUseAfterFree == uaf = {}

\* C2: once stop() has set the stop flag, the audio thread and the inference
\* thread terminate without further audio arriving: as long as one of them has
\* not terminated, a worker step is possible.
StopTerminatesWorkers ==
    stop_flag => (WorkersTerminated \/ ENABLED WorkerProgress)

\* C3: when stop() has returned, with Ok or with Err, the audio thread and
\* the inference thread have both been joined: neither is still running.
StopJoinsBothThreads ==
    caller_pc = "returned" => WorkersTerminated

\* C4: every token the engine has emitted has invoked on_text and has been
\* appended to the accumulated text: current_text() is the concatenation of
\* the tokens emitted so far.
EveryTokenAccumulated ==
    /\ CurrentText = ConcatAll(emitted)
    /\ Len(on_text_log) = Len(emitted)

\* C5: the tokens are delivered to on_text in emission order (call n is
\* token n, and every emitted token is delivered), and when on_text has been
\* called for token n, current_text() reflects the tokens up to n.
TokensDeliveredInOrder ==
    /\ on_text_log = emitted
    /\ Len(CurrentText) >= Len(ConcatAll(on_text_log))
    /\ SubSeq(CurrentText, 1, Len(ConcatAll(on_text_log))) = ConcatAll(on_text_log)

\* C6: when stop() has returned Ok(t), t is the accumulated text, what
\* current_text() yields.
StopOkIsCurrentText ==
    (caller_pc = "returned" /\ stop_result.kind = "Ok")
        => stop_result.value = CurrentText

\* C7: at end of stream the content the consumer can read,
\* samples[0..n_samples], is exactly the sequence of pushed samples.
ConsumerSeesAllPushed ==
    (live.eof = 1 /\ ~freed) => Contents(live) = pushed

\* The same with no failed growth: as long as no realloc has returned null,
\* at end of stream the content the consumer can read is exactly the sequence
\* of pushed samples, none lost, none duplicated, in order.
ConsumerSeesPushedUnlessGrowFailed ==
    (live.eof = 1 /\ ~freed /\ ~grow_failed) => Contents(live) = pushed

\* Its case: end of stream is marked on a buffer that has grown and holds
\* samples of more than one callback invocation.
EofAfterGrowth ==
    /\ live.eof = 1 /\ ~freed /\ ~grow_failed
    /\ live.capacity > InitialCapacity
    /\ Len(pushed) > MaxBlock
    /\ Contents(live) = pushed

\* C8: while the buffer exists, 0 <= n_samples <= capacity; the capacity only
\* stays or doubles, and n_samples never decreases.
CapacityDiscipline ==
    /\ [](~freed => (0 <= live.n_samples /\ live.n_samples <= live.capacity))
    /\ [][~freed' =>
            /\ live'.capacity \in {live.capacity, 2 * live.capacity}
            /\ live'.n_samples >= live.n_samples]_vars

\* C8 witness: the buffer has grown twice and is full.
GrownTwiceAndFull ==
    /\ ~freed
    /\ live.capacity = 4 * InitialCapacity
    /\ live.n_samples = live.capacity

\* C9: the device callback, the audio thread and the first wait of the
\* inference thread read and write samples, n_samples, capacity and eof only
\* while holding the buffer's mutex.
AccessesUnderMutex ==
    /\ audio_pc = "setEof" => mutex = "audio"
    /\ cb_pc = "loop" => mutex = "cb"
    /\ inf_pc = "waitRead" => mutex = "inf"

\* C10: a callback invocation that appended a sample has signaled the
\* condition variable when it releases the mutex, and the audio thread has
\* signaled it after setting eof when it releases the mutex.
AppendAndEofSignaled ==
    /\ (cb_pc = "unlock" /\ cb_appended > 0) => cb_signaled
    /\ audio_pc = "unlockEof" => eof_signaled

\* a result of stop() carries the transcript text: Ok(t) carries t, an
\* Err(CoreError) carries the error alone
ResultCarries(result, text) ==
    IF result.kind = "Ok" THEN result.value = text ELSE FALSE

\* the session's token callback is registered for the engine
CallbackRegistered == Ctx \in DOMAIN registry

\* C11: when the audio thread ended with a capture failure, stop() returns
\* the error the capture produced, the one the audio thread recorded in
\* audio_error.
StopReturnsCaptureError ==
    (caller_pc = "returned" /\ audio_error # None) => stop_result = audio_error

\* C12: when stop() returns an error after the engine has produced tokens,
\* the result carries the partial transcript, the tokens produced so far.
PartialTranscriptReturned ==
    (caller_pc = "returned" /\ stop_result.kind = "Err" /\ emitted # <<>>)
        => ResultCarries(stop_result, ConcatAll(emitted))

\* C13: stop() returns a typed result, never a panic: when the audio thread
\* panicked it returns the error "Audio thread panicked", when the audio
\* thread returned Ok and the inference thread panicked it returns the error
\* "Inference thread panicked", and when the audio thread did not return Ok
\* the result is an Err whatever the inference thread did.
PanicBecomesTypedErr ==
    caller_pc = "returned" =>
        /\ stop_result.kind \in {"Ok", "Err"}
        /\ audio_result = Panicked => stop_result = Err("Audio thread panicked")
        /\ (audio_result.kind = "Ok" /\ inf_result = Panicked)
               => stop_result = Err("Inference thread panicked")
        /\ audio_result.kind # "Ok" => stop_result.kind = "Err"

\* C13 witness: the audio thread returned Ok, the inference thread panicked,
\* and stop() has returned the typed error.
InferencePanicReturned ==
    /\ caller_pc = "returned"
    /\ audio_result.kind = "Ok"
    /\ inf_result = Panicked
    /\ stop_result = Err("Inference thread panicked")

\* C14: once the audio thread has failed, the session has left Running: the
\* stop flag is set and is_running() is false.
AudioFailureStopsSession ==
    (audio_pc = "done" /\ audio_result.kind = "Err") => (stop_flag /\ ~IsRunning)

\* C15: the step of the callback on which realloc returns null leaves
\* samples, n_samples and capacity as they were, and the invocation that
\* failed to grow releases the mutex when it returns.
GrowFailureKeepsBuffer ==
    /\ [][(cb_pc = "loop" /\ cb_pc' = "unlock") =>
            /\ live'.samples = live.samples
            /\ live'.n_samples = live.n_samples
            /\ live'.capacity = live.capacity
            /\ mutex' = mutex]_vars
    /\ [][(cb_pc = "unlock" /\ ~cb_signaled /\ cb_pc' = "idle") =>
            mutex' = "unlocked"]_vars

\* C15 witness: a growth has just failed on a buffer that is full of samples,
\* and the callback is about to release the mutex it holds.
GrowFailedOnFullBuffer ==
    /\ cb_pc = "unlock" /\ ~cb_signaled /\ grow_failed /\ ~freed
    /\ mutex = "cb"
    /\ live.n_samples = live.capacity
    /\ live.capacity > InitialCapacity

\* C16: after a failed growth no sample is accepted for the rest of the
\* session, and stop() returns an error.
GrowFailureFreezesCapture ==
    /\ [][(grow_failed /\ ~freed') => live'.n_samples = live.n_samples]_vars
    /\ []((caller_pc = "returned" /\ grow_failed) => stop_result.kind = "Err")

\* C17: the callback is cleared before the buffer is freed, and when stop()
\* has returned the session's token callback is no longer registered.
TeardownOrder ==
    /\ freed => ~CallbackRegistered
    /\ caller_pc = "returned" => ~CallbackRegistered

\* the callback ids the registry holds for the engine
HeldCallbacks == {registry[k].id : k \in DOMAIN registry}

NativeCallsSerialized == Cardinality(native_calls) <= 1

RECURSIVE LeadingRetryable(_)
\* the number of Retryable outcomes a script begins with
LeadingRetryable(sq) ==
    IF sq = <<>> \/ Head(sq).kind # "Retryable" THEN 0
    ELSE 1 + LeadingRetryable(Tail(sq))

\* C20: for an operation that returns Retryable exactly k times,
\* k < max_attempts, and then Success(v), with_retry returns Ok(v) and has
\* invoked the operation exactly k + 1 times.
RetryThenSuccess ==
    LET k == LeadingRetryable(script)
    IN  (/\ retry_pc = "done"
         /\ k < max_attempts
         /\ k < Len(script)
         /\ script[k + 1].kind = "Success")
            => /\ retry_result = Ok(script[k + 1].value)
               /\ calls = k + 1

\* C20 witness: success on the last attempt allowed, after
\* max_attempts - 1 retryable failures.
SucceededOnLastAttempt ==
    /\ retry_pc = "done"
    /\ max_attempts = MaxAttempts
    /\ LeadingRetryable(script) = max_attempts - 1
    /\ script[max_attempts].kind = "Success"
    /\ retry_result = Ok("v")
    /\ calls = max_attempts

\* C21: for an operation that returns Retryable on every call, with_retry
\* invokes it exactly max_attempts times and returns the error whose message
\* is the given message followed by ": retries exceeded".
AlwaysRetryableExhausts ==
    (retry_pc = "done" /\ LeadingRetryable(script) >= max_attempts)
        => /\ calls = max_attempts
           /\ retry_result = Err(<< ErrorMessage, ": retries exceeded" >>)

\* C21 witness: three attempts, all retryable, then the exhaustion error.
ExhaustedThreeAttempts ==
    /\ retry_pc = "done"
    /\ max_attempts = 3
    /\ LeadingRetryable(script) >= 3
    /\ calls = 3
    /\ retry_result = Err(<< ErrorMessage, ": retries exceeded" >>)

\* C22: when the operation returns NonRetryable(msg) on attempt i (after i
\* retryable outcomes, i < max_attempts), with_retry returns Err(msg) and has
\* invoked the operation exactly i + 1 times; once with_retry has returned,
\* the operation is not invoked again.
NonRetryableReturnsAtOnce ==
    /\ [](LET i == LeadingRetryable(script)
          IN  (/\ retry_pc = "done"
               /\ i < max_attempts
               /\ i < Len(script)
               /\ script[i + 1].kind = "NonRetryable")
                  => /\ retry_result = Err(script[i + 1].msg)
                     /\ calls = i + 1)
    /\ [][retry_pc = "done" => calls' = calls]_vars

\* C22 witness: NonRetryable on the first call, one invocation.
NonRetryableOnFirstCall ==
    /\ retry_pc = "done"
    /\ max_attempts > 1
    /\ script[1].kind = "NonRetryable"
    /\ calls = 1
    /\ retry_result = Err("bad request")

\* C23: the sleeps are 1, 2, 4, ... seconds, one after each retryable
\* outcome that another attempt follows: sleep number n is 2^(n-1) seconds,
\* every invocation but the first is preceded by one sleep, and when
\* with_retry has returned there is no sleep after the last invocation.
BackoffBetweenAttempts ==
    /\ \A n \in 1..Len(sleeps) : sleeps[n] = 2^(n - 1)
    /\ retry_pc \in {"loop", "call"} =>
          Len(sleeps) = IF attempt < max_attempts THEN attempt ELSE max_attempts - 1
    /\ retry_pc = "done" => Len(sleeps) = calls - 1

\* C23 witness: all attempts retryable, sleeps of 1 and 2 seconds, none after
\* the third attempt.
SleptOneThenTwo ==
    /\ retry_pc = "done"
    /\ calls = 3
    /\ retry_result.kind = "Err"
    /\ sleeps = << 1, 2 >>

\* C30: the first wait of the inference thread ends with the engine's call
\* exactly when the samples read are at least min_samples; otherwise it ends,
\* exactly when the stop flag is set or eof was read, with the result Ok("")
\* and no token emitted; otherwise the thread polls again.
InitialWaitOutcome ==
    [][(inf_pc = "waitCheck" /\ inf_pc' # "waitCheck") =>
          /\ inf_pc' = "setLanguage" <=> inf_n >= MinSamples
          /\ inf_pc' = "dropTranscriber"
                <=> (inf_n < MinSamples /\ (stop_flag \/ inf_eof # 0))
          /\ inf_pc' = "dropTranscriber"
                => (inf_result' = Ok(<<>>) /\ emitted' = <<>>)
          /\ inf_pc' \in {"setLanguage", "dropTranscriber", "waitLock"}]_vars

\* C30 witness: the wait ended on the stop flag with a sample in the buffer,
\* fewer than min_samples: Ok("") and the engine never called.
WaitEndedWithSamplesBuffered ==
    /\ inf_pc = "dropTranscriber"
    /\ inf_result = Ok(<<>>)
    /\ inf_n > 0 /\ inf_n < MinSamples
    /\ inf_eof = 0
    /\ stop_flag
    /\ emitted = <<>>

\* the terminal classification of a with_retry result: the error after the
\* loop follows a last outcome that was Retryable
RetryClass ==
    IF retry_result.kind = "Ok" THEN "success"
    ELSE IF script[calls].kind = "Retryable" THEN "retries exceeded"
    ELSE "non-retryable"

\* the terminal classification of a transcribe_wav_bytes result
GroqClass ==
    IF groq_result.kind = "Ok" THEN "success"
    ELSE IF groq_result.error[1] = "Http" THEN "transport error"
    ELSE IF groq_result.error[1] = "EmptyResponse" THEN "non-retryable"
    ELSE IF groq_result.error[2] = "Groq API retries exceeded" THEN "retries exceeded"
    ELSE "non-retryable"

\* C24: on the same sequence of responses, when both have returned,
\* transcribe_wav_bytes has made as many attempts as polish_text's
\* with_retry(3, ..), has slept the same sleeps, and has ended in the same
\* class.
CallersRetryIdentically ==
    (retry_pc = "done" /\ groq_pc = "done") =>
        /\ groq_calls = calls
        /\ groq_sleeps = sleeps
        /\ GroqClass = RetryClass

\* C29: is_retryable_status(s) is true exactly when s is 429 or a 5xx status.
RetryableStatusIs429Or5xx ==
    status_pc = "done" =>
        (status_retryable <=> (status = 429 \/ status \div 100 = 5))

\* C29 witness: 503 was classified retryable.
ServiceUnavailableRetryable ==
    status_pc = "done" /\ status = 503 /\ status_retryable = TRUE

\* the ids start_streaming_session has drawn and not yet returned
DrawnIds(t) == IF ls_pc[t] \in {"startLock", "push"} THEN {ls_arg[t]} ELSE {}

\* C25 as stated: the ids of the starts, in the order in which the starts
\* returned, are strictly increasing.
StartsReturnInIdOrder ==
    \A i, j \in 1..Len(start_returned) :
        i < j => start_returned[i] < start_returned[j]

\* C25: no two starts get the same id, concurrent starts included, and a
\* start that begins after an earlier start has returned gets a strictly
\* greater id than that start.
StartIdsUniqueAndOrdered ==
    /\ \A i, j \in 1..Len(start_returned) :
          i # j => start_returned[i] # start_returned[j]
    /\ \A t \in LibCallers : \A id \in DrawnIds(t) :
          /\ \A i \in 1..Len(start_returned) : start_returned[i] # id
          /\ \A u \in LibCallers \ {t} : id \notin DrawnIds(u)
          /\ \A earlier \in returned_at_begin[t] : id > earlier

\* C25 witness: a start that began after another start had returned has drawn
\* its id and is about to register it.
StartAfterReturnedStart ==
    \E t \in LibCallers : ls_pc[t] = "push" /\ returned_at_begin[t] # {}

\* C26: a session that stop_streaming_session has taken is not in the
\* registry; from then on get_streaming_text(id) returns the empty string,
\* is_streaming_session_active(id) returns false, and another
\* stop_streaming_session(id) returns "not found" and leaves the registry as
\* it was.
StoppedSessionRemoved ==
    /\ [](\A id \in stopped : id \notin RegisteredIds)
    /\ [][\A t \in LibCallers :
            /\ (ls_pc[t] = "pollRead" /\ ls_pc'[t] = "idle"
                  /\ ls_arg[t] \in stopped /\ ls_op[t] = "get_text")
                 => ls_ret'[t].value = <<>>
            /\ (ls_pc[t] = "pollRead" /\ ls_pc'[t] = "idle"
                  /\ ls_arg[t] \in stopped /\ ls_op[t] = "is_active")
                 => ls_ret'[t].value = FALSE
            /\ (ls_pc[t] = "stopTake" /\ ls_pc'[t] # "stopTake"
                  /\ ls_arg[t] \in stopped)
                 => /\ ls_ret'[t] # None
                    /\ ls_ret'[t].value = Err("Streaming session not found")
                    /\ active_sessions' = active_sessions]_vars

\* C26 witness: a second stop_streaming_session of a stopped session has
\* returned "not found" while another session is still registered.
SecondStopNotFound ==
    \E t \in LibCallers :
        /\ ls_ret[t] # None
        /\ ls_ret[t].op = "stop"
        /\ ls_ret[t].arg = 1
        /\ ls_ret[t].value = Err("Streaming session not found")
        /\ 1 \in stopped
        /\ active_sessions # <<>>

\* C28: start_recording while a recording is active returns
\* RecordingAlreadyActive and leaves the state, the running stream and its
\* sample buffer as they were; stop_recording and stop_recording_wav while no
\* recording is active return RecordingNotActive and change nothing; a
\* start_recording that fails for another reason leaves the state
\* not-recording.
WrongStateRejected ==
    [][\A t \in RecCallers :
         /\ (rec_pc[t] = "lock" /\ rec_pc'[t] # "lock" /\ rec_op[t] = "start"
               /\ rec_state.is_recording)
              => /\ rec_ret'[t].value = Err("RecordingAlreadyActive")
                 /\ rec_state' = rec_state
                 /\ rec_state'.stream = "Some"
                 /\ rec_samples' = rec_samples
         /\ (rec_pc[t] = "lock" /\ rec_pc'[t] # "lock" /\ rec_op[t] # "start"
               /\ ~rec_state.is_recording)
              => /\ rec_pc'[t] = "idle"
                 /\ rec_ret'[t].value = Err("RecordingNotActive")
                 /\ rec_state' = rec_state
                 /\ rec_samples' = rec_samples
         /\ (rec_pc[t] = "lock" /\ rec_pc'[t] # "lock" /\ rec_op[t] = "start"
               /\ ~rec_state.is_recording /\ rec_ret'[t].value.kind = "Err")
              => /\ rec_state' = rec_state
                 /\ ~rec_state'.is_recording]_vars

\* C28 witness: a start_recording was rejected while a recording with
\* captured samples was running.
StartRejectedWhileRecording ==
    \E t \in RecCallers :
        /\ rec_ret[t] # None
        /\ rec_ret[t].op = "start"
        /\ rec_ret[t].value = Err("RecordingAlreadyActive")
        /\ rec_state.is_recording
        /\ rec_state.stream = "Some"
        /\ rec_samples # <<>>

\* C27: resample_linear returns floor(N * R2 / R1) samples for N samples at
\* R1 resampled to R2, returns the input unchanged when the rates are equal or
\* the input is empty, and its first output sample is the first input sample.
ResampleLengthAndFirstSample ==
    rs_pc = "done" =>
        /\ (rs_input = <<>> \/ rs_src = rs_dst) => rs_output = ToVec(rs_input)
        /\ (rs_input # <<>> /\ rs_src # rs_dst) =>
              Len(rs_output) = (Len(rs_input) * rs_dst) \div rs_src
        /\ rs_output # <<>> => rs_output[1] = Exactly(rs_input[1])

\* C31: while the session is neither stopped nor out of memory, after N
\* frames have gone through the device callback the buffer holds
\* floor(N * TargetRate / rate) samples, for a rate above, at and below the
\* target rate.
CaptureCountIsResampled ==
    (stream = "playing" /\ cb_pc = "idle" /\ ~stop_flag /\ ~grow_failed
        /\ ~freed)
      => live.n_samples = (frames * TargetRate) \div rate

\* C32: once eof is set on the live buffer, n_samples does not change any
\* more, as long as the buffer exists.
NoAppendAfterEof ==
    [][(live.eof = 1 /\ ~freed /\ ~freed') => live'.n_samples = live.n_samples]_vars

\* ---------------------------------------------------------------------
\* The locks of one streaming session: who takes which mutex while holding
\* which, and who waits for whom (lib.rs, streaming_asr.rs, qwen_asr_ffi.rs)
\* ---------------------------------------------------------------------

\* the mutexes participant p holds
Held(p) == {m \in Mutexes : lk_owner[m] = p}

\* p moves on to the position to
Goto(p, to) == lk_pc' = [lk_pc EXCEPT ![p] = to]

\* Mutex::lock by p: waits until m is free; every mutex p holds meanwhile is
\* ordered before m
Lock(p, m) ==
    /\ lk_owner[m] = "free"
    /\ lk_owner' = [lk_owner EXCEPT ![m] = p]
    /\ lk_edges' = lk_edges \cup {<<h, m>> : h \in Held(p)}

\* the guard of m goes out of scope
Unlock(p, m) ==
    /\ lk_owner' = [lk_owner EXCEPT ![m] = "free"]
    /\ UNCHANGED lk_edges

\* a guard that lives for one statement: lock, use, unlock
Brief(p, m) ==
    /\ lk_owner[m] = "free"
    /\ lk_edges' = lk_edges \cup {<<h, m>> : h \in Held(p)}
    /\ UNCHANGED lk_owner

\* pthread_mutex_lock(&live.mutex) by p; on the freed buffer it is undefined:
\* it may return with nothing held or never return
LockBuffer(p, to) ==
    IF lk_live.freed
    THEN /\ \E outcome \in FreedLockOutcomes :
              Goto(p, IF outcome = "returns" THEN to ELSE "hung")
         /\ UNCHANGED << lk_owner, lk_edges >>
    ELSE /\ Lock(p, "buffer")
         /\ Goto(p, to)

\* pthread_mutex_unlock(&live.mutex) by p
UnlockBuffer(p) ==
    /\ lk_owner' = [lk_owner EXCEPT
                      !["buffer"] = IF @ = p THEN "free" ELSE @]
    /\ UNCHANGED lk_edges

\* the positions at which a participant takes the engine's ctx mutex for one
\* statement, and the position after each
AfterCtx == [clear_ctx |-> "clear_reg", set_ctx |-> "set_reg",
             set_language |-> "engine_ctx", drop_clear_ctx |-> "drop_clear_reg",
             drop_ctx |-> "free"]

\* the positions at which a participant takes CALLBACK_REGISTRY for one
\* block, and the position after each
AfterRegistry == [clear_reg |-> "set_ctx", set_reg |-> "spawn",
                  drop_clear_reg |-> "drop_ctx"]

\* start_streaming_session: QwenTranscriber::new, which may fail
LkStartNew ==
    /\ lk_pc["caller"] = "idle"
    /\ \E loaded \in BOOLEAN :
          Goto("caller", IF loaded THEN "clear_ctx" ELSE "done")
    /\ UNCHANGED << lk_owner, lk_edges, lk_stop, lk_live, lk_registered,
                    lk_seen >>
    /\ UNCHANGED outsideLocks

\* let ctx = *self.ctx.lock().unwrap(), in set_token_callback,
\* clear_token_callback, set_language and Drop; set_language's native call
\* may fail, and run_live_inference then returns
LkBriefCtx(p) ==
    /\ lk_pc[p] \in DOMAIN AfterCtx
    /\ Brief(p, "ctx")
    /\ \/ Goto(p, AfterCtx[lk_pc[p]])
       \/ /\ lk_pc[p] = "set_language"
          /\ Goto(p, "drop_clear_ctx")
    /\ UNCHANGED << lk_stop, lk_live, lk_registered, lk_seen >>
    /\ UNCHANGED outsideLocks

\* the block around CALLBACK_REGISTRY.lock() in set_token_callback and
\* clear_token_callback
LkBriefRegistry(p) ==
    /\ lk_pc[p] \in DOMAIN AfterRegistry
    /\ Brief(p, "callbacks")
    /\ Goto(p, AfterRegistry[lk_pc[p]])
    /\ UNCHANGED << lk_stop, lk_live, lk_registered, lk_seen >>
    /\ UNCHANGED outsideLocks

\* start_streaming_transcription spawns the audio and the inference thread
LkSpawn ==
    /\ lk_pc["caller"] = "spawn"
    /\ lk_pc' = [lk_pc EXCEPT !["caller"] = "push_lock", !["audio"] = "open",
                              !["inference"] = "wait_lock"]
    /\ UNCHANGED << lk_owner, lk_edges, lk_stop, lk_live, lk_registered,
                    lk_seen >>
    /\ UNCHANGED outsideLocks

\* ACTIVE_STREAMING_SESSIONS.lock() in start_streaming_session and in
\* stop_streaming_session
LkCallerLock ==
    /\ lk_pc["caller"] \in {"push_lock", "started"}
    /\ Lock("caller", "sessions")
    /\ Goto("caller", IF lk_pc["caller"] = "push_lock" THEN "push" ELSE "take")
    /\ UNCHANGED << lk_stop, lk_live, lk_registered, lk_seen >>
    /\ UNCHANGED outsideLocks

\* sessions.push((session_id, Arc::new(handle))) and the end of the statement
LkPush ==
    /\ lk_pc["caller"] = "push"
    /\ lk_registered' = TRUE
    /\ Unlock("caller", "sessions")
    /\ Goto("caller", "started")
    /\ UNCHANGED << lk_stop, lk_live, lk_seen >>
    /\ UNCHANGED outsideLocks

\* sessions.remove(idx), Arc::try_unwrap and the end of the block
LkStopTake ==
    /\ lk_pc["caller"] = "take"
    /\ lk_registered' = FALSE
    /\ Unlock("caller", "sessions")
    /\ Goto("caller", "set_flag")
    /\ UNCHANGED << lk_stop, lk_live, lk_seen >>
    /\ UNCHANGED outsideLocks

\* StreamingHandle::stop: self.stop_flag.store(true)
LkStopFlag ==
    /\ lk_pc["caller"] = "set_flag"
    /\ lk_stop' = TRUE
    /\ Goto("caller", "join_audio")
    /\ UNCHANGED << lk_owner, lk_edges, lk_live, lk_registered, lk_seen >>
    /\ UNCHANGED outsideLocks

\* StreamingHandle::stop: the audio thread's join; its Err ends stop
LkJoinAudio ==
    /\ lk_pc["caller"] = "join_audio"
    /\ lk_pc["audio"] \in {"done_ok", "done_err"}
    /\ Goto("caller", IF lk_pc["audio"] = "done_ok" THEN "join_inference"
                      ELSE "done")
    /\ UNCHANGED << lk_owner, lk_edges, lk_stop, lk_live, lk_registered,
                    lk_seen >>
    /\ UNCHANGED outsideLocks

\* StreamingHandle::stop: the inference thread's join
LkJoinInference ==
    /\ lk_pc["caller"] = "join_inference"
    /\ lk_pc["inference"] = "done"
    /\ Goto("caller", "done")
    /\ UNCHANGED << lk_owner, lk_edges, lk_stop, lk_live, lk_registered,
                    lk_seen >>
    /\ UNCHANGED outsideLocks

\* get_streaming_text and is_streaming_session_active:
\* ACTIVE_STREAMING_SESSIONS.lock()
LkPollLock ==
    /\ lk_pc["poller"] = "idle"
    /\ Lock("poller", "sessions")
    /\ \E op \in {"poll_text", "poll_active"} : Goto("poller", op)
    /\ UNCHANGED << lk_stop, lk_live, lk_registered, lk_seen >>
    /\ UNCHANGED outsideLocks

\* get_streaming_text: handle.current_text() of a session found
LkPollText ==
    /\ lk_pc["poller"] = "poll_text"
    /\ IF lk_registered THEN Brief("poller", "text")
       ELSE UNCHANGED << lk_owner, lk_edges >>
    /\ Goto("poller", "poll_unlock")
    /\ UNCHANGED << lk_stop, lk_live, lk_registered, lk_seen >>
    /\ UNCHANGED outsideLocks

\* is_streaming_session_active: handle.is_running() of a session found
LkPollActive ==
    /\ lk_pc["poller"] = "poll_active"
    /\ Goto("poller", "poll_unlock")
    /\ UNCHANGED << lk_owner, lk_edges, lk_stop, lk_live, lk_registered,
                    lk_seen >>
    /\ UNCHANGED outsideLocks

\* the sessions guard goes out of scope
LkPollUnlock ==
    /\ lk_pc["poller"] = "poll_unlock"
    /\ Unlock("poller", "sessions")
    /\ Goto("poller", "idle")
    /\ UNCHANGED << lk_stop, lk_live, lk_registered, lk_seen >>
    /\ UNCHANGED outsideLocks

\* capture_audio_live up to stream.play(): any step may fail
LkAudioOpen ==
    /\ lk_pc["audio"] = "open"
    /\ \E opened \in BOOLEAN :
          Goto("audio", IF opened THEN "wait_stop" ELSE "done_err")
    /\ UNCHANGED << lk_owner, lk_edges, lk_stop, lk_live, lk_registered,
                    lk_seen >>
    /\ UNCHANGED outsideLocks

\* while !stop_flag.load() { sleep }
LkAudioWaitStop ==
    /\ lk_pc["audio"] = "wait_stop"
    /\ lk_stop
    /\ Goto("audio", "lock_eof")
    /\ UNCHANGED << lk_owner, lk_edges, lk_stop, lk_live, lk_registered,
                    lk_seen >>
    /\ UNCHANGED outsideLocks

\* pthread_mutex_lock before the eof write
LkAudioLockEof ==
    /\ lk_pc["audio"] = "lock_eof"
    /\ LockBuffer("audio", "set_eof")
    /\ UNCHANGED << lk_stop, lk_live, lk_registered, lk_seen >>
    /\ UNCHANGED outsideLocks

\* live.eof = 1, the signal and pthread_mutex_unlock
LkAudioSetEof ==
    /\ lk_pc["audio"] = "set_eof"
    /\ lk_live' = [lk_live EXCEPT !.eof = TRUE]
    /\ UnlockBuffer("audio")
    /\ Goto("audio", "drop_stream")
    /\ UNCHANGED << lk_stop, lk_registered, lk_seen >>
    /\ UNCHANGED outsideLocks

\* the stream goes out of scope: waits for a callback in progress
LkAudioDropStream ==
    /\ lk_pc["audio"] = "drop_stream"
    /\ lk_pc["callback"] = "idle"
    /\ Goto("audio", "done_ok")
    /\ UNCHANGED << lk_owner, lk_edges, lk_stop, lk_live, lk_registered,
                    lk_seen >>
    /\ UNCHANGED outsideLocks

\* the device calls the stream's callback, which goes on when the stop flag
\* is not set
LkCbInvoke ==
    /\ lk_pc["audio"] \in {"wait_stop", "lock_eof", "set_eof", "drop_stream"}
    /\ lk_pc["callback"] = "idle"
    /\ ~lk_stop
    /\ Goto("callback", "cb_lock")
    /\ UNCHANGED << lk_owner, lk_edges, lk_stop, lk_live, lk_registered,
                    lk_seen >>
    /\ UNCHANGED outsideLocks

\* the callback's pthread_mutex_lock
LkCbLock ==
    /\ lk_pc["callback"] = "cb_lock"
    /\ LockBuffer("callback", "cb_append")
    /\ UNCHANGED << lk_stop, lk_live, lk_registered, lk_seen >>
    /\ UNCHANGED outsideLocks

\* the callback appends, signals and unlocks
LkCbAppend ==
    /\ lk_pc["callback"] = "cb_append"
    /\ \E enough \in BOOLEAN :
          lk_live' = [lk_live EXCEPT !.enough = @ \/ enough]
    /\ UnlockBuffer("callback")
    /\ Goto("callback", "idle")
    /\ UNCHANGED << lk_stop, lk_registered, lk_seen >>
    /\ UNCHANGED outsideLocks

\* the inference thread locks the buffer: in run_live_inference's wait loop
\* and, holding ctx, in the engine's live call
LkInfLock ==
    /\ lk_pc["inference"] \in {"wait_lock", "engine"}
    /\ Lock("inference", "buffer")
    /\ Goto("inference", IF lk_pc["inference"] = "wait_lock" THEN "wait_read"
                         ELSE "engine_read")
    /\ UNCHANGED << lk_stop, lk_live, lk_registered, lk_seen >>
    /\ UNCHANGED outsideLocks

\* it reads n_samples and eof and unlocks
LkInfRead ==
    /\ lk_pc["inference"] \in {"wait_read", "engine_read"}
    /\ lk_seen' = [enough |-> lk_live.enough, eof |-> lk_live.eof]
    /\ Unlock("inference", "buffer")
    /\ Goto("inference", IF lk_pc["inference"] = "wait_read" THEN "wait_decide"
                         ELSE "engine_emit")
    /\ UNCHANGED << lk_stop, lk_live, lk_registered >>
    /\ UNCHANGED outsideLocks

\* run_live_inference's wait loop: enough samples, or stop or eof, or sleep
LkInfWaitDecide ==
    /\ lk_pc["inference"] = "wait_decide"
    /\ Goto("inference",
            IF lk_seen.enough THEN "set_language"
            ELSE IF lk_stop \/ lk_seen.eof THEN "drop_clear_ctx"
            ELSE "wait_lock")
    /\ UNCHANGED << lk_owner, lk_edges, lk_stop, lk_live, lk_registered,
                    lk_seen >>
    /\ UNCHANGED outsideLocks

\* transcribe_stream_live: let ctx = self.ctx.lock().unwrap(), held across
\* the native call
LkEngineCtx ==
    /\ lk_pc["inference"] = "engine_ctx"
    /\ Lock("inference", "ctx")
    /\ Goto("inference", "engine")
    /\ UNCHANGED << lk_stop, lk_live, lk_registered, lk_seen >>
    /\ UNCHANGED outsideLocks

\* the engine has a token: token_callback_trampoline locks CALLBACK_REGISTRY;
\* or it has none
LkTrampolineLock ==
    /\ lk_pc["inference"] = "engine_emit"
    /\ \/ /\ Lock("inference", "callbacks")
          /\ Goto("inference", "trampoline")
       \/ /\ Goto("inference", "engine_next")
          /\ UNCHANGED << lk_owner, lk_edges >>
    /\ UNCHANGED << lk_stop, lk_live, lk_registered, lk_seen >>
    /\ UNCHANGED outsideLocks

\* the trampoline calls the stored callback if the downcast finds it, the
\* callback locks accumulated_text for its push_str; the registry guard ends
LkTrampolineCall ==
    /\ lk_pc["inference"] = "trampoline"
    /\ IF DowncastMut(StoredCallback, TrampolineType) # None
       THEN /\ lk_owner["text"] = "free"
            /\ lk_edges' = lk_edges
                  \cup {<<h, "text">> : h \in Held("inference")}
       ELSE UNCHANGED lk_edges
    /\ lk_owner' = [lk_owner EXCEPT !["callbacks"] = "free"]
    /\ Goto("inference", "engine_next")
    /\ UNCHANGED << lk_stop, lk_live, lk_registered, lk_seen >>
    /\ UNCHANGED outsideLocks

\* the engine returns once it has seen eof, and the ctx guard ends; else it
\* goes round again
LkEngineNext ==
    /\ lk_pc["inference"] = "engine_next"
    /\ IF lk_seen.eof
       THEN /\ Unlock("inference", "ctx")
            /\ Goto("inference", "drop_clear_ctx")
       ELSE /\ Goto("inference", "engine")
            /\ UNCHANGED << lk_owner, lk_edges >>
    /\ UNCHANGED << lk_stop, lk_live, lk_registered, lk_seen >>
    /\ UNCHANGED outsideLocks

\* the inference thread's closure: free_live_audio and Box::from_raw
LkInfFree ==
    /\ lk_pc["inference"] = "free"
    /\ lk_live' = [lk_live EXCEPT !.freed = TRUE]
    /\ Goto("inference", "done")
    /\ UNCHANGED << lk_owner, lk_edges, lk_stop, lk_registered, lk_seen >>
    /\ UNCHANGED outsideLocks

InitLocks ==
    /\ LockIdle
    /\ AsrIdle
    /\ ResampleIdle
    /\ RecIdle
    /\ LibIdle
    /\ StatusIdle
    /\ GroqIdle
    /\ RetryIdle
    /\ TranscriberIdle
    /\ registry = [c \in {Ctx} |-> StoredCallback]
    /\ InitSession

NextLocks ==
    \/ LkStartNew
    \/ \E p \in {"caller", "inference"} : LkBriefCtx(p)
    \/ \E p \in {"caller", "inference"} : LkBriefRegistry(p)
    \/ LkSpawn
    \/ LkCallerLock
    \/ LkPush
    \/ LkStopTake
    \/ LkStopFlag
    \/ LkJoinAudio
    \/ LkJoinInference
    \/ LkPollLock
    \/ LkPollText
    \/ LkPollActive
    \/ LkPollUnlock
    \/ LkAudioOpen
    \/ LkAudioWaitStop
    \/ LkAudioLockEof
    \/ LkAudioSetEof
    \/ LkAudioDropStream
    \/ LkCbInvoke
    \/ LkCbLock
    \/ LkCbAppend
    \/ LkInfLock
    \/ LkInfRead
    \/ LkInfWaitDecide
    \/ LkEngineCtx
    \/ LkTrampolineLock
    \/ LkTrampolineCall
    \/ LkEngineNext
    \/ LkInfFree

SpecLocks == InitLocks /\ [][NextLocks]_vars

\* the mutex a participant is about to take at each position
WantedAt == [clear_ctx |-> "ctx", set_ctx |-> "ctx", set_language |-> "ctx",
             drop_clear_ctx |-> "ctx", drop_ctx |-> "ctx",
             engine_ctx |-> "ctx",
             clear_reg |-> "callbacks", set_reg |-> "callbacks",
             drop_clear_reg |-> "callbacks", engine_emit |-> "callbacks",
             push_lock |-> "sessions",
             lock_eof |-> "buffer", cb_lock |-> "buffer",
             wait_lock |-> "buffer", engine |-> "buffer",
             poll_text |-> "text"]

\* whom participant p cannot go on without: the holder of the mutex it is
\* locking, the thread it joins, the callback its stream waits for; "none"
\* when p can go on or has ended
WaitsFor(p) ==
    LET pc == lk_pc[p] IN
    IF pc \in DOMAIN WantedAt /\ lk_owner[WantedAt[pc]] \notin {"free", p}
       /\ ~(WantedAt[pc] = "buffer" /\ lk_live.freed)
       /\ ~(pc = "poll_text" /\ ~lk_registered)
    THEN lk_owner[WantedAt[pc]]
    ELSE IF pc = "join_audio" /\ lk_pc["audio"] \notin {"done_ok", "done_err"}
    THEN "audio"
    ELSE IF pc = "join_inference" /\ lk_pc["inference"] # "done"
    THEN "inference"
    ELSE IF pc = "drop_stream" /\ lk_pc["callback"] # "idle"
    THEN "callback"
    ELSE "none"

\* p never goes on again: it hangs in a lock call, or the chain of
\* participants it waits for comes back on itself or ends in one that hangs
RECURSIVE Stuck(_, _)
Stuck(p, n) ==
    IF lk_pc[p] = "hung" THEN TRUE
    ELSE IF WaitsFor(p) = "none" THEN FALSE
    ELSE IF n = 0 THEN TRUE
    ELSE Stuck(WaitsFor(p), n - 1)

\* the mutexes reachable from m along the nested acquisitions seen so far
RECURSIVE After(_, _)
After(ms, n) ==
    IF n = 0 THEN ms
    ELSE After(ms \cup {e[2] : e \in {d \in lk_edges : d[1] \in ms}}, n - 1)

\* no mutex is ever taken, directly or through others, while it is held
LockOrderAcyclic ==
    \A e \in lk_edges : e[1] \notin After({e[2]}, Cardinality(Mutexes))

\* C33: no participant of a session ends up waiting for ever, and the five
\* mutexes are taken in an acyclic order.
NoDeadlockAcyclicOrder ==
    /\ \A p \in Participants : ~Stuck(p, Cardinality(Participants))
    /\ LockOrderAcyclic

\* C34: every registered handle is running, and is_streaming_session_active
\* returns true exactly when the id it is asked about is registered at the
\* time of its read.
ActiveIffRegistered ==
    /\ [](\A i \in 1..Len(active_sessions) :
             ~active_sessions[i].handle.stop_flag)
    /\ [][\A t \in LibCallers :
             (ls_pc[t] = "pollRead" /\ ls_op[t] = "is_active"
                /\ ls_pc'[t] = "idle")
               => ls_ret'[t].value = (ls_arg[t] \in RegisteredIds)]_vars

\* is_streaming_session_active has returned true for one id and false for
\* another
ActiveAnsweredBothWays ==
    \E t, u \in LibCallers :
       /\ ls_ret[t] # None /\ ls_ret[t].op = "is_active" /\ ls_ret[t].value
       /\ ls_ret[u] # None /\ ls_ret[u].op = "is_active" /\ ~ls_ret[u].value
       /\ active_sessions # <<>>

\* C35: each registered handle has the registry's reference as its only
\* strong reference, and no stop_streaming_session returns 'Streaming session
\* is still in use'.
StopNeverStillInUse ==
    /\ \A i \in 1..Len(active_sessions) : active_sessions[i].handle.strong = 1
    /\ \A t \in LibCallers :
          (ls_ret[t] # None /\ ls_ret[t].op = "stop"
             /\ ls_ret[t].value.kind = "Err")
            => ls_ret[t].value.error # "Streaming session is still in use"

\* a stop of a registered id has gone through while another session was
\* registered and a second thread was in a call of its own
StopOfRegisteredReturned ==
    \E t, u \in LibCallers :
       /\ t # u
       /\ ls_ret[t] # None /\ ls_ret[t].op = "stop"
       /\ ls_ret[t].arg \in stopped
       /\ ls_ret[t].value \in StopResults
       /\ active_sessions # <<>>
       /\ ls_pc[u] # "idle"

\* C36: a thread that loads the model and spawns the threads of a new
\* session, or that sets the stop flag and joins the threads of a session it
\* took, does not hold the registry mutex.
RegistryLockNotHeldWhileBlocking ==
    \A t \in LibCallers :
       ls_pc[t] \in {"startSession", "fetchAdd", "stopFlag", "stopJoin"}
         => sessions_lock # t

\* one thread is joining the threads of a session while another holds the
\* registry mutex
LockTakenDuringJoin ==
    \E t, u \in LibCallers :
       /\ t # u
       /\ ls_pc[t] = "stopJoin"
       /\ sessions_lock = u

\* whom a caller of the recorder or the stream's callback cannot go on
\* without: the holder of the lock it wants, or the callback the drop of the
\* stream waits for; "none" when it can go on
RecWaitsFor(p) ==
    IF p = "callback"
    THEN IF rcb_pc = "lock" /\ rec_samples_lock # "free"
         THEN rec_samples_lock ELSE "none"
    ELSE IF rec_pc[p] = "lock" /\ rec_lock # "free" THEN rec_lock
    ELSE IF rec_pc[p] = "dropStream" /\ rcb_pc # "idle" THEN "callback"
    ELSE IF rec_pc[p] = "lockSamples" /\ rec_samples_lock # "free"
    THEN rec_samples_lock
    ELSE "none"

\* the chain of those p waits for comes back on itself
RECURSIVE RecStuck(_, _)
RecStuck(p, n) ==
    IF RecWaitsFor(p) = "none" THEN FALSE
    ELSE IF n = 0 THEN TRUE
    ELSE RecStuck(RecWaitsFor(p), n - 1)

\* C37: stop_recording and the audio callback never wait for each other: no
\* caller and no callback waits in a cycle, the callback never holds or wants
\* the recording-state lock, and the stop that locks the sample buffer finds
\* the stream gone.
StopNeverDeadlocksCallback ==
    /\ \A p \in RecCallers \cup {"callback"} :
          ~RecStuck(p, Cardinality(RecCallers) + 1)
    /\ rec_lock # "callback"
    /\ \A t \in RecCallers :
          rec_pc[t] \in {"lockSamples", "read"}
            => rec_state.stream = "None" /\ rcb_pc = "idle"

\* a stop waits in the drop of the stream for a callback that holds the
\* sample buffer, while the other caller waits for the recording-state lock
StopWaitsForWritingCallback ==
    \E t, u \in RecCallers :
       /\ rec_pc[t] = "dropStream"
       /\ rcb_pc = "append"
       /\ rec_samples_lock = "callback"
       /\ rec_pc[u] = "lock"

\* C38: a stop that has passed its is_recording check leaves the state
\* not recording, and returns with the stream released whatever it returns;
\* a start_recording in that state is not rejected as already active and,
\* when it succeeds, begins with an empty sample buffer.
StopLeavesRecorderRestartable ==
    [][\A t \in RecCallers :
         /\ (rec_pc[t] = "lock" /\ rec_op[t] # "start" /\ rec_pc'[t] # "lock"
               /\ rec_state.is_recording)
              => ~rec_state'.is_recording
         /\ (rec_pc[t] = "read" /\ rec_pc'[t] = "idle")
              => /\ ~rec_state'.is_recording
                 /\ rec_state'.stream = "None"
                 /\ rec_lock' = "free"
                 /\ rec_samples_lock' = "free"
         /\ (rec_pc[t] = "lock" /\ rec_op[t] = "start" /\ rec_pc'[t] = "idle"
               /\ ~rec_state.is_recording)
              => /\ (rec_ret'[t].value.kind = "Err"
                       => rec_ret'[t].value.error # "RecordingAlreadyActive")
                 /\ (rec_ret'[t].value.kind = "Ok"
                       => /\ rec_samples' = <<>>
                          /\ rec_state'.is_recording
                          /\ rec_state'.stream = "Some")]_vars

\* a stop has returned 'No audio captured' and a start after it has been
\* accepted
StartAcceptedAfterFailedStop ==
    \E t, u \in RecCallers :
       /\ rec_ret[t] # None /\ rec_ret[t].op # "start"
       /\ rec_ret[t].value.kind = "Err"
       /\ rec_ret[t].value.error = "AudioCapture: No audio captured"
       /\ rec_ret[u] # None /\ rec_ret[u].op = "start"
       /\ rec_ret[u].value.kind = "Ok"
       /\ rec_state.is_recording
       /\ rec_samples = <<>>

\* C40: the callback only appends: what the buffer held stays as it was; for
\* one channel the block is appended as it is, for C channels one sample per
\* frame is appended, in frame order, C times which is the sum of the frame's
\* C values.
CallbackAppendsFrameMeans ==
    [][(rcb_pc = "append" /\ rcb_pc' = "idle") =>
         LET old == Len(rec_samples)
             c == rec_state.channels
             count == Len(rcb_data) \div c
         IN  /\ Len(rec_samples') = old + count
             /\ SubSeq(rec_samples', 1, old) = rec_samples
             /\ \A i \in 1..count :
                   rec_samples'[old + i] * c =
                      FrameSum([k \in 1..c |-> rcb_data[(i - 1) * c + k]])]_vars

\* a two-channel recording holds two captured samples, the means of frames
\* with different sums
StereoBlockAppended ==
    /\ rec_state.channels = 2
    /\ Len(rec_samples) = 2
    /\ rec_samples[1] # rec_samples[2]
    /\ rcb_pc = "idle"

\* ---------------------------------------------------------------------
\* The local ASR engine: init_local_asr and is_local_asr_available
\* (transcribe.rs)
\* ---------------------------------------------------------------------

\* how many init_local_asr calls are made
MaxInits == 3

\* the model directories a caller may pass: one that holds a model and one
\* that does not
ModelDirs == {"model", "empty"}

\* QwenTranscriber::new(model_dir): the transcriber, here the number of the
\* call that loaded it, or the error of a directory without a model
NewTranscriber(dir, serial) ==
    IF dir = "model" THEN Ok(serial)
    ELSE Err("Failed to load Qwen3-ASR model")

\* OnceLock::set: the cell after the call, the value kept when there is one
OnceLockSet(cell, value) == IF cell = None THEN Ok(value) ELSE cell

\* LOCAL_TRANSCRIBER.get().is_some()
IsLocalAsrAvailable == local_transcriber # None

\* a thread calls init_local_asr(model_dir)
AsrInitCall(t) ==
    /\ asr_pc[t] = "idle"
    /\ asr_calls < MaxInits
    /\ asr_calls' = asr_calls + 1
    /\ \E dir \in ModelDirs : asr_dir' = [asr_dir EXCEPT ![t] = dir]
    /\ asr_pc' = [asr_pc EXCEPT ![t] = "new"]
    /\ asr_ret' = [asr_ret EXCEPT ![t] = None]
    /\ asr_after_ok' = [asr_after_ok EXCEPT ![t] = asr_oks > 0]
    /\ UNCHANGED << local_transcriber, asr_new, asr_oks >>
    /\ UNCHANGED outsideAsr

\* let transcriber = QwenTranscriber::new(model_dir)?
AsrNew(t) ==
    /\ asr_pc[t] = "new"
    /\ LET made == NewTranscriber(asr_dir[t], asr_calls)
       IN  IF made.kind = "Ok"
           THEN /\ asr_new' = [asr_new EXCEPT ![t] = made]
                /\ asr_pc' = [asr_pc EXCEPT ![t] = "set"]
                /\ UNCHANGED << asr_ret, asr_dir, asr_after_ok >>
           ELSE /\ asr_ret' = [asr_ret EXCEPT ![t] =
                      [op |-> "init", after_ok |-> asr_after_ok[t],
                       value |-> made]]
                /\ asr_pc' = [asr_pc EXCEPT ![t] = "idle"]
                /\ asr_dir' = [asr_dir EXCEPT ![t] = "none"]
                /\ asr_after_ok' = [asr_after_ok EXCEPT ![t] = FALSE]
                /\ UNCHANGED asr_new
    /\ UNCHANGED << local_transcriber, asr_calls, asr_oks >>
    /\ UNCHANGED outsideAsr

\* LOCAL_TRANSCRIBER.set(transcriber).map_err(..)?; Ok(()): a set on a full
\* cell hands the transcriber back, which is dropped
AsrSet(t) ==
    /\ asr_pc[t] = "set"
    /\ local_transcriber' = OnceLockSet(local_transcriber, asr_new[t].value)
    /\ LET stored == local_transcriber = None
       IN  /\ asr_ret' = [asr_ret EXCEPT ![t] =
                 [op |-> "init", after_ok |-> asr_after_ok[t],
                  value |-> IF stored THEN Ok(0)
                            ELSE Err("Local ASR already initialized")]]
           /\ asr_oks' = IF stored THEN asr_oks + 1 ELSE asr_oks
    /\ asr_new' = [asr_new EXCEPT ![t] = None]
    /\ asr_pc' = [asr_pc EXCEPT ![t] = "idle"]
    /\ asr_dir' = [asr_dir EXCEPT ![t] = "none"]
    /\ asr_after_ok' = [asr_after_ok EXCEPT ![t] = FALSE]
    /\ UNCHANGED asr_calls
    /\ UNCHANGED outsideAsr

\* a thread calls is_local_asr_available()
AsrAvailable(t) ==
    /\ asr_pc[t] = "idle"
    /\ asr_ret' = [asr_ret EXCEPT ![t] =
          [op |-> "available", after_ok |-> asr_oks > 0,
           value |-> IsLocalAsrAvailable]]
    /\ UNCHANGED << local_transcriber, asr_pc, asr_dir, asr_new, asr_calls,
                    asr_oks, asr_after_ok >>
    /\ UNCHANGED outsideAsr

InitAsr ==
    /\ AsrIdle
    /\ LockIdle
    /\ ResampleIdle
    /\ RecIdle
    /\ LibIdle
    /\ StatusIdle
    /\ GroqIdle
    /\ RetryIdle
    /\ TranscriberIdle
    /\ registry = [c \in {Ctx} |-> StoredCallback]
    /\ InitSession

NextAsr ==
    \E t \in AsrCallers :
        \/ AsrInitCall(t)
        \/ AsrNew(t)
        \/ AsrSet(t)
        \/ AsrAvailable(t)

SpecAsr == InitAsr /\ [][NextAsr]_vars

\* C39: at most one init_local_asr returns Ok; a call that begins after one
\* has returned Ok returns 'Local ASR already initialized' and leaves the
\* stored transcriber as it is; is_local_asr_available never goes from true
\* to false.
InitializedAtMostOnce ==
    [][/\ asr_oks' <= 1
       /\ (local_transcriber # None => local_transcriber' = local_transcriber)
       /\ \A t \in AsrCallers :
             (asr_pc[t] # "idle" /\ asr_pc'[t] = "idle" /\ asr_after_ok[t])
               => /\ asr_ret'[t].value.kind = "Err"
                  /\ asr_ret'[t].value.error = "Local ASR already initialized"
                  /\ local_transcriber' = local_transcriber]_vars

====
